---------------------------- MODULE Spec2Model ----------------------------
(***************************************************************************)
(* A model of RChat: the websocket connection manager (presence, fan-out), *)
(* the message send/delete services, the site-ban cascade and the          *)
(* community (server) membership and ban services.                         *)
(*                                                                         *)
(* The durable tables are sets of rows; every SQL statement of the source  *)
(* is one atomic read or write of a table.  The in-memory state is the     *)
(* connection registry, the broadcast bus and the per-connection tasks.    *)
(***************************************************************************)
EXTENDS Integers, Sequences, FiniteSets, TLC

(***************************************************************************)
(* Bounds of the model.                                                    *)
(***************************************************************************)
MaxConns == 2        \* websocket connections opened in one behaviour
MaxOther == 1        \* events published by other components while connections run
MaxMsgs  == 1        \* message rows inserted in one behaviour
MaxIds   == 1        \* ids generated for channels, conversations and files in one behaviour

(***************************************************************************)
(* Names.  Usernames keep their case: "Bob" and "bob" are different        *)
(* strings that SQL's LOWER() maps to the same string.                     *)
(***************************************************************************)
NONE == "none"

LowerCase(s) ==
    CASE s = "Bob"   -> "bob"
      [] s = "BOB"   -> "bob"
      [] s = "Dev"   -> "dev"
      [] s = "Root"  -> "root"
      [] OTHER       -> s

\* Rust's str::eq_ignore_ascii_case
eq_ignore_ascii_case(a, b) == LowerCase(a) = LowerCase(b)

DEFAULT_SERVER_NAME == "RChat"
SYSTEM_USERNAME     == "system"
GUEST_USERNAME      == "guest"

ConnIds == 1 .. MaxConns

VARIABLES
    \* ---- durable tables (SQLite) ----
    users,             \* rows [username, is_admin]
    banned_usernames,  \* rows of the site-ban log: the username as written
    servers,           \* rows [name, creator_username]
    server_members,    \* rows [server_name, username, role, is_online]
    server_bans,       \* rows [server_name, username]
    channels,          \* rows [id, server_name]
    direct_messages,   \* rows [id, username1, username2]
    messages,          \* rows [id, channel_id, dm_id, sender_username, is_deleted]
    files,             \* rows [id, uploader_username]
    \* ---- in-memory state of the ConnectionManager ----
    connections,       \* the registry: ids of registered connections
    conn,              \* per connection: owner, handler position, tasks, socket, cursor
    bus,               \* every event sent on the broadcast channel, in send order
    \* ---- requests in flight and bookkeeping of the checks ----
    req,               \* per request slot: the handler being run and its position
    uuid,              \* number of ids generated so far (Uuid::new_v4 is fresh each time)
    last,              \* the last completed call: operation, arguments, result, events
    hist               \* history: what has happened so far (never read by the program)

vars == << users, banned_usernames, servers, server_members, server_bans, channels,
           direct_messages, messages, files, connections, conn, bus, req, uuid, last, hist >>

tables == << users, banned_usernames, servers, server_members, server_bans, channels,
             direct_messages, messages, files >>

(***************************************************************************)
(* Row helpers.                                                            *)
(***************************************************************************)
User(n, a)            == [username |-> n, is_admin |-> a]
Member(s, u, r, o)    == [server_name |-> s, username |-> u, role |-> r, is_online |-> o]
Ban(s, u)             == [server_name |-> s, username |-> u]
Server(n, c)          == [name |-> n, creator_username |-> c, channel_count |-> 1]
Channel(i, s)         == [id |-> i, server_name |-> s, is_active |-> 1]

\* SELECT ... FROM server_members WHERE LOWER(username) = LOWER(?)
MembershipsOf(username) ==
    { m \in server_members : LowerCase(m.username) = LowerCase(username) }

\* A deterministic enumeration of a finite set of strings (the row order of a
\* SELECT without ORDER BY is fixed by the table, not by the caller).
RECURSIVE SeqOf(_)
SeqOf(S) ==
    IF S = {} THEN << >>
    ELSE LET x == CHOOSE y \in S : TRUE IN << x >> \o SeqOf(S \ {x})

(***************************************************************************)
(* Events of the broadcast bus (websocket/events.rs, ServerMessage).       *)
(***************************************************************************)
UserOnlineStatusChanged(s, u, o) ==
    [type |-> "user_online_status_changed", server_name |-> s, username |-> u,
     is_online |-> o]
Pong == [type |-> "pong"]
OtherEvent == [type |-> "other"]

(***************************************************************************)
(* ConnectionManager (websocket/connection.rs).                            *)
(*                                                                         *)
(* handle_connection runs as: subscribe, register, spawn send_task and     *)
(* recv_task, yield, set_user_online, select! on the two join handles,     *)
(* set_user_offline, return.  Dropping a tokio JoinHandle detaches the     *)
(* task: the task that did not win the select! keeps running.              *)
(***************************************************************************)
\* broadcast::Sender::send (its result is dropped by every caller): the events
\* are queued for the subscribers; with no subscriber left the send fails and
\* the events are discarded.  A subscription lives as long as its send_task.
HasReceiver == \E c \in DOMAIN conn : conn[c].send_task = "running"
Send(events) == IF HasReceiver THEN bus \o events ELSE bus

IdleConn == [username |-> NONE, pc |-> "idle", send_task |-> "none",
             recv_task |-> "none", socket |-> "none", rx |-> 0]

ConnUsers == {"bob", GUEST_USERNAME}

\* lines 95-143: split the socket, subscribe, insert into the registry, spawn both tasks
handle_connection(c, username) ==
    /\ conn[c].pc = "idle"
    /\ conn' = [conn EXCEPT ![c] = [username |-> username, pc |-> "set_online",
                                    send_task |-> "running", recv_task |-> "running",
                                    socket |-> "open", rx |-> Len(bus)]]
    /\ connections' = connections \cup {c}
    /\ UNCHANGED << tables, bus, req, uuid, last, hist >>

\* The UPDATE of set_user_online / set_user_offline (lines 29-36, 60-67)
SetOnlineFlag(username, flag) ==
    { IF LowerCase(m.username) = LowerCase(username)
        THEN [m EXCEPT !.is_online = flag] ELSE m : m \in server_members }

\* The loop of sends stopping after its first turn
PresenceEvents_first(username, flag) ==
    LET names == SeqOf({ m.server_name : m \in MembershipsOf(username) })
    IN  IF names = << >> THEN << >>
        ELSE << UserOnlineStatusChanged(names[1], username, flag) >>

\* The SELECT and the loop of sends of set_user_online / set_user_offline
PresenceEvents(username, flag) ==
    LET names == SeqOf({ m.server_name : m \in MembershipsOf(username) })
    IN  [i \in 1 .. Len(names) |-> UserOnlineStatusChanged(names[i], username, flag)]

\* set_user_online, first statement: the UPDATE (skipped for the guest identity)
set_user_online_update(c) ==
    /\ conn[c].pc = "set_online"
    /\ IF conn[c].username # GUEST_USERNAME
         THEN /\ server_members' = SetOnlineFlag(conn[c].username, TRUE)
              /\ conn' = [conn EXCEPT ![c].pc = "set_online_send"]
         ELSE /\ server_members' = server_members
              /\ conn' = [conn EXCEPT ![c].pc = "select"]
    /\ UNCHANGED << users, banned_usernames, servers, server_bans, channels,
                    direct_messages, messages, files, connections, bus, req, uuid, last, hist >>

\* set_user_online, second statement: the SELECT, then one send per membership
set_user_online_send(c) ==
    /\ conn[c].pc = "set_online_send"
    /\ bus' = Send(PresenceEvents(conn[c].username, TRUE))
    /\ conn' = [conn EXCEPT ![c].pc = "select"]
    /\ UNCHANGED << tables, connections, req, uuid, last, hist >>

\* The peer closes the socket, or the socket fails abruptly.
socket_close(c) ==
    /\ conn[c].socket = "open"
    /\ conn' = [conn EXCEPT ![c].socket = "closed"]
    /\ UNCHANGED << tables, connections, bus, req, uuid, last, hist >>

\* send_task, one turn of its loop (lines 105-123): take the next event of the
\* subscription and write it to the socket; a failed write ends the task.
send_task_step(c) ==
    /\ conn[c].send_task = "running"
    /\ conn[c].rx < Len(bus)
    /\ IF conn[c].socket = "open"
         THEN conn' = [conn EXCEPT ![c].rx = @ + 1]
         ELSE conn' = [conn EXCEPT ![c].rx = @ + 1, ![c].send_task = "done"]
    /\ UNCHANGED << tables, connections, bus, req, uuid, last, hist >>

\* recv_task, a heartbeat frame arrives (lines 130-137): answered with Pong on the bus
recv_task_heartbeat(c) ==
    /\ conn[c].recv_task = "running"
    /\ conn[c].socket = "open"
    /\ hist.other < MaxOther
    /\ bus' = Send(<< Pong >>)
    /\ hist' = [hist EXCEPT !.other = @ + 1]
    /\ UNCHANGED << tables, connections, conn, req, uuid, last >>

\* recv_task, the stream ends (lines 130, 139-140): the loop exits and the
\* task removes the connection id from the registry.
recv_task_exit(c) ==
    /\ conn[c].recv_task = "running"
    /\ conn[c].socket = "closed"
    /\ conn' = [conn EXCEPT ![c].recv_task = "done"]
    /\ connections' = connections \ {c}
    /\ UNCHANGED << tables, bus, req, uuid, last, hist >>

\* select! (lines 147-150): the handler resumes as soon as one task has finished;
\* the other join handle is dropped, which detaches that task.
select_wake(c) ==
    /\ conn[c].pc = "select"
    /\ conn[c].send_task = "done" \/ conn[c].recv_task = "done"
    /\ conn' = [conn EXCEPT ![c].pc = "set_offline"]
    /\ UNCHANGED << tables, connections, bus, req, uuid, last, hist >>

\* set_user_offline, first statement: the UPDATE (skipped for the guest identity)
set_user_offline_update(c) ==
    /\ conn[c].pc = "set_offline"
    /\ IF conn[c].username # GUEST_USERNAME
         THEN /\ server_members' = SetOnlineFlag(conn[c].username, FALSE)
              /\ conn' = [conn EXCEPT ![c].pc = "set_offline_send"]
         ELSE /\ server_members' = server_members
              /\ conn' = [conn EXCEPT ![c].pc = "returned"]
    /\ hist' = [hist EXCEPT !.offline_runs[c] = @ + 1]
    /\ UNCHANGED << users, banned_usernames, servers, server_bans, channels,
                    direct_messages, messages, files, connections, bus, req, uuid, last >>

\* set_user_offline, second statement: the SELECT, then one send per membership
set_user_offline_send(c) ==
    /\ conn[c].pc = "set_offline_send"
    /\ bus' = Send(PresenceEvents(conn[c].username, FALSE))
    /\ conn' = [conn EXCEPT ![c].pc = "returned"]
    /\ UNCHANGED << tables, connections, req, uuid, last, hist >>

\* ConnectionManager::broadcast (lines 155-157), called by any request handler
broadcast_other ==
    /\ hist.other < MaxOther
    /\ bus' = Send(<< OtherEvent >>)
    /\ hist' = [hist EXCEPT !.other = @ + 1]
    /\ UNCHANGED << tables, connections, conn, req, uuid, last >>

(***************************************************************************)
(* Initial states.                                                         *)
(***************************************************************************)
NoLast == [op |-> NONE]
InitHist == [other |-> 0, offline_runs |-> [c \in ConnIds |-> 0],
             server_banned |-> {}, server_banned_live |-> {},
             site_banned |-> {}, unbanned |-> {}, uploaded |-> {}]
IdleReq == [ban |-> [pc |-> "idle"], usr |-> [pc |-> "idle"]]

InitConn ==
    /\ users = { User(SYSTEM_USERNAME, 0), User("root", 1), User("bob", 0) }
    /\ banned_usernames = {}
    /\ servers = { Server(DEFAULT_SERVER_NAME, SYSTEM_USERNAME), Server("dev", "root") }
    /\ server_members = { Member(DEFAULT_SERVER_NAME, "root", "member", FALSE),
                          Member(DEFAULT_SERVER_NAME, "bob", "member", FALSE),
                          Member("dev", "root", "admin", FALSE),
                          Member("dev", "bob", "member", FALSE) }
    /\ server_bans = {}
    /\ channels = { Channel("c1", DEFAULT_SERVER_NAME), Channel("c2", "dev") }
    /\ direct_messages = {}
    /\ messages = {}
    /\ files = {}
    /\ connections = {}
    /\ conn = [c \in ConnIds |-> IdleConn]
    /\ bus = << >>
    /\ req = IdleReq
    /\ uuid = 0
    /\ last = NoLast
    /\ hist = InitHist

NextConn ==
    \/ \E c \in ConnIds, u \in ConnUsers : handle_connection(c, u)
    \/ \E c \in ConnIds : set_user_online_update(c)
    \/ \E c \in ConnIds : set_user_online_send(c)
    \/ \E c \in ConnIds : socket_close(c)
    \/ \E c \in ConnIds : send_task_step(c)
    \/ \E c \in ConnIds : recv_task_heartbeat(c)
    \/ \E c \in ConnIds : recv_task_exit(c)
    \/ \E c \in ConnIds : select_wake(c)
    \/ \E c \in ConnIds : set_user_offline_update(c)
    \/ \E c \in ConnIds : set_user_offline_send(c)
    \/ broadcast_other

SpecConn == InitConn /\ [][NextConn]_vars

(***************************************************************************)
(* Presence and teardown of connections.                                   *)
(***************************************************************************)
\* A connection that is fully set up and whose socket is open.
Live(c) == conn[c].pc = "select" /\ conn[c].socket = "open"

\* The handler of c is in its set_user_offline call and takes a step of it.
OfflineStep(c) ==
    /\ conn[c].pc \in {"set_offline", "set_offline_send"}
    /\ conn'[c].pc # conn[c].pc

\* C1: while another connection of the same identity is live, the disconnect of
\* a connection leaves every online flag as it is and sends no presence event.
C1_DisconnectOfOneKeepsOnline ==
    [][ \A c \in ConnIds :
          ( /\ OfflineStep(c)
            /\ \E d \in ConnIds \ {c} :
                  conn[d].username = conn[c].username /\ Live(d) )
          => (server_members' = server_members /\ bus' = bus) ]_vars

\* C2: once the handler of a connection has returned, both of its tasks have
\* ended and its id is out of the registry.
C2_ReturnedMeansTornDown ==
    \A c \in ConnIds :
        conn[c].pc = "returned"
        => /\ conn[c].send_task = "done"
           /\ conn[c].recv_task = "done"
           /\ c \notin connections

(***************************************************************************)
(* Messaging: services/messaging.rs (the unified send and delete),         *)
(* services/chat.rs and api/direct_messages.rs (the per-conversation send),*)
(* api/unified_messages.rs (the endpoints, which publish the events).      *)
(* Every request below comes through the auth middleware, so its caller    *)
(* is the username of an existing users row.  Message contents are left    *)
(* out: every request carries a non-empty content within the length limit. *)
(***************************************************************************)
Message(i, c, d, s, del) ==
    [id |-> i, channel_id |-> c, dm_id |-> d, sender_username |-> s, is_deleted |-> del]
DirectMessage(i, a, b) == [id |-> i, username1 |-> a, username2 |-> b]

NewMessage(m) ==
    [type |-> "new_message", message_id |-> m.id, channel_id |-> m.channel_id,
     sender_username |-> m.sender_username]
NewDmMessage(m) ==
    [type |-> "new_dm_message", message_id |-> m.id, dm_id |-> m.dm_id,
     sender_username |-> m.sender_username]
MessageDeleted(m) ==
    [type |-> "message_deleted", message_id |-> m.id, channel_id |-> m.channel_id,
     dm_id |-> m.dm_id]

\* The auth middleware: SELECT COUNT(*) FROM users WHERE username = ?
auth_middleware(username) == \E u \in users : u.username = username

\* SELECT is_admin FROM users WHERE username = ?  (fetch_one, compared with 1)
is_site_admin(username) == \E u \in users : u.username = username /\ u.is_admin = 1

\* SELECT role FROM server_members WHERE server_name = ? AND username = ?
RoleIn(server_name, username) ==
    IF \E m \in server_members : m.server_name = server_name /\ m.username = username
      THEN (CHOOSE m \in server_members :
                m.server_name = server_name /\ m.username = username).role
      ELSE NONE

\* Faulty variant of send_channel_message: the membership of the sender is not looked up
send_channel_message_open(channel_id, sender_username) ==
    IF ~ \E c \in channels : c.id = channel_id THEN "NotFound" ELSE "Ok"

\* The result of send_channel_message up to its INSERT
send_channel_message(channel_id, sender_username) ==
    IF ~ \E c \in channels : c.id = channel_id THEN "NotFound"
    ELSE LET server_name == (CHOOSE c \in channels : c.id = channel_id).server_name
             is_member   == Cardinality({ m \in server_members :
                                 m.server_name = server_name /\ m.username = sender_username })
         IN  IF is_member = 0 THEN "Unauthorized" ELSE "Ok"

\* The result of send_dm_message up to its INSERT
send_dm_message(dm_id, sender_username) ==
    IF ~ \E d \in direct_messages : d.id = dm_id THEN "NotFound"
    ELSE LET dm == CHOOSE d \in direct_messages : d.id = dm_id
         IN  IF sender_username # dm.username1 /\ sender_username # dm.username2
               THEN "Unauthorized" ELSE "Ok"

\* send_message: the dispatch on the target type
send_message(target_type, target_id, sender_username) ==
    IF target_type = "channel"
      THEN send_channel_message(target_id, sender_username)
      ELSE send_dm_message(target_id, sender_username)

\* The row send_message inserts: exactly one of channel_id / dm_id is set
NewRow(target_type, target_id, sender_username) ==
    IF target_type = "channel"
      THEN Message(uuid + 1, target_id, NONE, sender_username, 0)
      ELSE Message(uuid + 1, NONE, target_id, sender_username, 0)

\* POST /messages: send_message, then broadcast NewMessage / NewDmMessage
send_message_handler(username, target_type, target_id) ==
    LET result  == send_message(target_type, target_id, username)
        message == NewRow(target_type, target_id, username)
        events  == IF result # "Ok" THEN << >>
                   ELSE IF target_type = "channel" THEN << NewMessage(message) >>
                   ELSE << NewDmMessage(message) >>
    IN  /\ auth_middleware(username)
        /\ result = "Ok" => uuid < MaxMsgs
        /\ messages' = IF result = "Ok" THEN messages \cup {message} ELSE messages
        /\ uuid' = IF result = "Ok" THEN uuid + 1 ELSE uuid
        /\ bus' = Send(events)
        /\ last' = [op |-> "send_message", by |-> username, target_type |-> target_type,
                    target_id |-> target_id, result |-> result, events |-> events]
        /\ UNCHANGED << users, banned_usernames, servers, server_members, server_bans,
                        channels, direct_messages, files, connections, conn, req, hist >>

\* chat::create_message with a conversation id: the INSERT is not preceded by
\* any lookup of the conversation or of its participants.  Whether the store
\* rejects a row that names a missing conversation depends on the schema,
\* which the sources do not contain: both outcomes are possible.
create_message(dm_id, enforced) ==
    IF enforced /\ ~ \E d \in direct_messages : d.id = dm_id THEN "Database" ELSE "Ok"

\* POST /dms/:dm_id/messages (api/direct_messages.rs, send_dm_message)
dms_send_dm_message(sender_username, dm_id, enforced) ==
    LET result  == create_message(dm_id, enforced)
        message == NewRow("direct_message", dm_id, sender_username)
        events  == IF result = "Ok" THEN << NewDmMessage(message) >> ELSE << >>
    IN  /\ auth_middleware(sender_username)
        /\ result = "Ok" => uuid < MaxMsgs
        /\ messages' = IF result = "Ok" THEN messages \cup {message} ELSE messages
        /\ uuid' = IF result = "Ok" THEN uuid + 1 ELSE uuid
        /\ bus' = Send(events)
        /\ last' = [op |-> "dms_send_dm_message", by |-> sender_username,
                    target_type |-> "direct_message", target_id |-> dm_id,
                    result |-> result, events |-> events]
        /\ UNCHANGED << users, banned_usernames, servers, server_members, server_bans,
                        channels, direct_messages, files, connections, conn, req, hist >>

\* Faulty variants of the authorization rule of delete_message.
\* (a) any member of the owning community may delete a channel message
authorized_any_member(message, target_type, target_id, requester_username) ==
    \/ message.sender_username = requester_username
    \/ is_site_admin(requester_username)
    \/ /\ target_type = "channel"
       /\ \E c \in channels :
             c.id = target_id /\ RoleIn(c.server_name, requester_username) # NONE

\* (b) role "admin" in any community is enough, for any kind of target
authorized_admin_anywhere(message, target_type, target_id, requester_username) ==
    \/ message.sender_username = requester_username
    \/ is_site_admin(requester_username)
    \/ \E m \in server_members : m.username = requester_username /\ m.role = "admin"

\* (c) the sender of a channel message must still be a member of the community
authorized_sender_member(message, target_type, target_id, requester_username) ==
    \/ /\ message.sender_username = requester_username
       /\ ( target_type = "channel" =>
               \E c \in channels :
                  c.id = target_id /\ RoleIn(c.server_name, requester_username) # NONE )
    \/ is_site_admin(requester_username)
    \/ /\ target_type = "channel"
       /\ \E c \in channels :
             c.id = target_id /\ RoleIn(c.server_name, requester_username) = "admin"

\* delete_message, lines 346-386: the requester is the sender; else holds the
\* site-admin flag; else, for a channel target only, has role "admin" in the
\* community that owns the channel.
authorized(message, target_type, target_id, requester_username) ==
    \/ message.sender_username = requester_username
    \/ is_site_admin(requester_username)
    \/ /\ target_type = "channel"
       /\ \E c \in channels :
             c.id = target_id /\ RoleIn(c.server_name, requester_username) = "admin"

\* The target a message belongs to, as the consistency check of lines 328-344 reads it
TargetOf(message, target_type) ==
    IF target_type = "channel" THEN message.channel_id ELSE message.dm_id

\* delete_message without the target consistency check
delete_message_any_target(target_type, target_id, message_id, requester_username) ==
    IF ~ \E m \in messages : m.id = message_id THEN "NotFound"
    ELSE LET message == CHOOSE m \in messages : m.id = message_id
         IN  IF authorized(message, target_type, target_id, requester_username)
               THEN "Ok"
             ELSE "Unauthorized"

\* The result of delete_message (lines 315-399)
delete_message(target_type, target_id, message_id, requester_username) ==
    IF ~ \E m \in messages : m.id = message_id THEN "NotFound"
    ELSE LET message == CHOOSE m \in messages : m.id = message_id
         IN  IF TargetOf(message, target_type) # target_id THEN "BadRequest"
             ELSE IF /\ message.sender_username # requester_username
                     /\ ~ \E u \in users : u.username = requester_username
                    THEN "Database"
             ELSE IF /\ message.sender_username # requester_username
                     /\ ~ is_site_admin(requester_username)
                     /\ target_type = "channel"
                     /\ ~ \E c \in channels : c.id = target_id
                    THEN "NotFound"
             ELSE IF authorized(message, target_type, target_id, requester_username)
                    THEN "Ok"
             ELSE "Unauthorized"

\* DELETE /messages/channels/:channel_id/:message_id and
\* DELETE /messages/dms/:dm_id/:message_id: delete_message, then broadcast
\* MessageDeleted built from the row as it was read before the UPDATE.
DeleteEndpoint(target_type, username, target_id, message_id) ==
    LET result == delete_message(target_type, target_id, message_id, username)
        events == IF result = "Ok"
                    THEN << MessageDeleted(CHOOSE m \in messages : m.id = message_id) >>
                    ELSE << >>
    IN  /\ auth_middleware(username)
        /\ messages' = IF result = "Ok"
                         THEN { IF m.id = message_id THEN [m EXCEPT !.is_deleted = 1] ELSE m :
                                m \in messages }
                         ELSE messages
        /\ bus' = Send(events)
        /\ last' = [op |-> "delete_message", by |-> username, target_type |-> target_type,
                    target_id |-> target_id, message_id |-> message_id,
                    result |-> result, events |-> events]
        /\ UNCHANGED << users, banned_usernames, servers, server_members, server_bans,
                        channels, direct_messages, files, connections, conn, req, uuid, hist >>

delete_channel_message(username, channel_id, message_id) ==
    DeleteEndpoint("channel", username, channel_id, message_id)

delete_dm_message(username, dm_id, message_id) ==
    DeleteEndpoint("direct_message", username, dm_id, message_id)

(***************************************************************************)
(* Community membership: services/server.rs, services/user_moderation.rs   *)
(* (server_ban_user) and their endpoints in api/servers.rs.                *)
(***************************************************************************)
ServerMemberJoined(s, u) == [type |-> "server_member_joined", server_name |-> s, username |-> u]
ServerMemberLeft(s, u)   == [type |-> "server_member_left", server_name |-> s, username |-> u]
ServerMemberRoleUpdated(s, u, r) ==
    [type |-> "server_member_role_updated", server_name |-> s, username |-> u, new_role |-> r]
ServerStatsUpdated(s) == [type |-> "server_stats_updated", server_name |-> s]

\* The requester check shared by server_ban_user (lines 102-123) and
\* update_member_role (lines 232-252): site admin, else a member with role "admin"
AdminOf(server_name, requester_username) ==
    IF is_site_admin(requester_username) THEN "Ok"
    ELSE IF RoleIn(server_name, requester_username) = "admin" THEN "Ok"
    ELSE "Unauthorized"

\* join_server without the read of the ban list
join_server_open(server_name, username) ==
    IF ~ \E s \in servers : LowerCase(s.name) = LowerCase(server_name) THEN "NotFound"
    ELSE LET server == CHOOSE s \in servers : LowerCase(s.name) = LowerCase(server_name)
         IN  IF RoleIn(server.name, username) # NONE THEN "Member"
             ELSE "Ok"

\* The result of join_server up to its INSERT; "Member" when the row exists already
join_server(server_name, username) ==
    IF ~ \E s \in servers : LowerCase(s.name) = LowerCase(server_name) THEN "NotFound"
    ELSE LET server == CHOOSE s \in servers : LowerCase(s.name) = LowerCase(server_name)
         IN  IF \E b \in server_bans : b.server_name = server.name /\ b.username = username
               THEN "Forbidden"
             ELSE IF RoleIn(server.name, username) # NONE THEN "Member"
             ELSE "Ok"

\* COALESCE((SELECT MAX(is_online) FROM server_members WHERE username = ?), 0)
OnlineElsewhere(username) ==
    \E m \in server_members : m.username = username /\ m.is_online

\* POST /servers/join: join_server, then ServerMemberJoined and ServerStatsUpdated
join(username, server_name) ==
    LET result == join_server(server_name, username)
        name   == (CHOOSE s \in servers : LowerCase(s.name) = LowerCase(server_name)).name
        ok     == result \in {"Ok", "Member"}
        events == IF ok THEN << ServerMemberJoined(name, username), ServerStatsUpdated(name) >>
                  ELSE << >>
    IN  /\ auth_middleware(username)
        /\ server_members' =
              IF result = "Ok"
                THEN server_members \cup
                       { Member(name, username, "member", OnlineElsewhere(username)) }
                ELSE server_members
        /\ bus' = Send(events)
        /\ last' = [op |-> "join", by |-> username, server_name |-> server_name,
                    result |-> IF ok THEN "Ok" ELSE result, events |-> events]
        /\ UNCHANGED << users, banned_usernames, servers, server_bans, channels,
                        direct_messages, messages, files, connections, conn, req, uuid, hist >>

\* server_ban_user without the check of the target against the creator
server_ban_user_owner_allowed(server_name, target_username, requester_username) ==
    IF server_name = "RChat" THEN "BadRequest"
    ELSE IF ~ \E s \in servers : s.name = server_name THEN "NotFound"
    ELSE IF AdminOf(server_name, requester_username) # "Ok" THEN "Unauthorized"
    ELSE IF \E b \in server_bans :
               b.server_name = server_name /\ b.username = target_username
           THEN "BadRequest"
    ELSE "Ok"

\* server_ban_user letting every member of the community ban
server_ban_user_any_member(server_name, target_username, requester_username) ==
    IF server_name = "RChat" THEN "BadRequest"
    ELSE IF ~ \E s \in servers : s.name = server_name THEN "NotFound"
    ELSE IF (CHOOSE s \in servers : s.name = server_name).creator_username = target_username
           THEN "BadRequest"
    ELSE IF /\ ~ is_site_admin(requester_username)
            /\ RoleIn(server_name, requester_username) = NONE
           THEN "Unauthorized"
    ELSE IF \E b \in server_bans :
               b.server_name = server_name /\ b.username = target_username
           THEN "BadRequest"
    ELSE "Ok"

\* server_ban_user without the exemption of the default community
server_ban_user_default_allowed(server_name, target_username, requester_username) ==
    IF ~ \E s \in servers : s.name = server_name THEN "NotFound"
    ELSE IF (CHOOSE s \in servers : s.name = server_name).creator_username = target_username
           THEN "BadRequest"
    ELSE IF AdminOf(server_name, requester_username) # "Ok" THEN "Unauthorized"
    ELSE IF \E b \in server_bans :
               b.server_name = server_name /\ b.username = target_username
           THEN "BadRequest"
    ELSE "Ok"

\* The result of server_ban_user up to its INSERT (lines 86-137)
server_ban_user(server_name, target_username, requester_username) ==
    IF server_name = "RChat" THEN "BadRequest"
    ELSE IF ~ \E s \in servers : s.name = server_name THEN "NotFound"
    ELSE IF (CHOOSE s \in servers : s.name = server_name).creator_username = target_username
           THEN "BadRequest"
    ELSE IF AdminOf(server_name, requester_username) # "Ok" THEN "Unauthorized"
    ELSE IF \E b \in server_bans :
               b.server_name = server_name /\ b.username = target_username
           THEN "BadRequest"
    ELSE "Ok"

\* The DELETE of server_ban_user taking the target out of every community
server_ban_delete_everywhere(server_name, target_username) ==
    { m \in server_members : m.username # target_username }

\* DELETE FROM server_members WHERE server_name = ? AND username = ? (line 149)
server_ban_delete(server_name, target_username) ==
    { m \in server_members :
        ~ (m.server_name = server_name /\ m.username = target_username) }

\* DELETE /servers/:server_name/members/:username: server_ban_user (the INSERT
\* of the ban row and the DELETE of the membership row), then ServerMemberLeft
\* and ServerStatsUpdated
remove_server_member(requester_username, server_name, username) ==
    LET result == server_ban_user(server_name, username, requester_username)
        events == IF result = "Ok"
                    THEN << ServerMemberLeft(server_name, username),
                            ServerStatsUpdated(server_name) >>
                    ELSE << >>
    IN  /\ auth_middleware(requester_username)
        /\ server_bans' = IF result = "Ok"
                            THEN server_bans \cup { Ban(server_name, username) }
                            ELSE server_bans
        /\ server_members' =
              IF result = "Ok"
                THEN server_ban_delete(server_name, username)
                ELSE server_members
        /\ bus' = Send(events)
        /\ last' = [op |-> "remove_server_member", by |-> requester_username,
                    server_name |-> server_name, username |-> username,
                    result |-> result, events |-> events]
        /\ hist' = IF result = "Ok"
                     THEN [hist EXCEPT
                             !.server_banned = @ \cup { Ban(server_name, username) },
                             !.server_banned_live = @ \cup { Ban(server_name, username) }]
                     ELSE hist
        /\ UNCHANGED << users, banned_usernames, servers, channels, direct_messages,
                        messages, files, connections, conn, req, uuid >>

\* The result of update_member_role up to its UPDATE (lines 228-263)
update_member_role(server_name, username, new_role, requester_username) ==
    IF new_role # "member" /\ new_role # "admin" THEN "BadRequest"
    ELSE IF AdminOf(server_name, requester_username) # "Ok" THEN "Unauthorized"
    ELSE IF ~ \E s \in servers : s.name = server_name THEN "NotFound"
    ELSE IF (CHOOSE s \in servers : s.name = server_name).creator_username = username
           THEN "BadRequest"
    ELSE "Ok"

\* PUT /servers/:server_name/members/:username: update_member_role, then
\* ServerMemberRoleUpdated
update_member(requester_username, server_name, username, new_role) ==
    LET result == update_member_role(server_name, username, new_role, requester_username)
        events == IF result = "Ok"
                    THEN << ServerMemberRoleUpdated(server_name, username, new_role) >>
                    ELSE << >>
    IN  /\ auth_middleware(requester_username)
        /\ server_members' =
              IF result = "Ok"
                THEN { IF m.server_name = server_name /\ m.username = username
                         THEN [m EXCEPT !.role = new_role] ELSE m : m \in server_members }
                ELSE server_members
        /\ bus' = Send(events)
        /\ last' = [op |-> "update_member", by |-> requester_username,
                    server_name |-> server_name, username |-> username,
                    new_role |-> new_role, result |-> result, events |-> events]
        /\ UNCHANGED << users, banned_usernames, servers, server_bans, channels,
                        direct_messages, messages, files, connections, conn, req, uuid, hist >>

(***************************************************************************)
(* The messaging specification: no connection is open; root holds the      *)
(* site-admin flag, ann created the community dev, bob is a member of it,  *)
(* eve is not; ann and bob share the conversation d1.                      *)
(***************************************************************************)
MsgUsers    == {"root", "ann", "bob", "eve"}
Senders     == {"bob", "eve"}           \* the callers of the send, join and leave requests
ChannelIds  == {"c1", "c2", "cX"}       \* cX names no channel
DmIds       == {"d1", "dX"}             \* dX names no conversation
MessageIds  == 1 .. MaxMsgs

InitMsg ==
    /\ users = { User(SYSTEM_USERNAME, 0), User("root", 1), User("ann", 0),
                 User("bob", 0), User("eve", 0) }
    /\ banned_usernames = {}
    /\ servers = { Server(DEFAULT_SERVER_NAME, SYSTEM_USERNAME), Server("dev", "ann") }
    /\ server_members = { Member(DEFAULT_SERVER_NAME, u, "member", FALSE) : u \in MsgUsers }
                        \cup { Member("dev", "ann", "admin", FALSE),
                               Member("dev", "bob", "member", FALSE) }
    /\ server_bans = {}
    /\ channels = { Channel("c1", DEFAULT_SERVER_NAME), Channel("c2", "dev") }
    /\ direct_messages = { DirectMessage("d1", "ann", "bob") }
    /\ messages = {}
    /\ files = {}
    /\ connections = {}
    /\ conn = [c \in ConnIds |-> IdleConn]
    /\ bus = << >>
    /\ req = IdleReq
    /\ uuid = 0
    /\ last = NoLast
    /\ hist = InitHist

NextMsg ==
    \/ \E u \in Senders, t \in ChannelIds : send_message_handler(u, "channel", t)
    \/ \E u \in Senders, t \in DmIds : send_message_handler(u, "direct_message", t)
    \/ \E u \in Senders, d \in DmIds, e \in BOOLEAN : dms_send_dm_message(u, d, e)
    \/ \E u \in MsgUsers, t \in ChannelIds, i \in MessageIds : delete_channel_message(u, t, i)
    \/ \E u \in MsgUsers, t \in DmIds, i \in MessageIds : delete_dm_message(u, t, i)
    \/ \E u \in Senders : join(u, "dev")
    \/ \E r \in {"ann", "bob"}, u \in Senders : remove_server_member(r, "dev", u)
    \/ \E role \in {"member", "admin"} : update_member("ann", "dev", "bob", role)

SpecMsg == InitMsg /\ [][NextMsg]_vars

(***************************************************************************)
(* Deleting and sending messages.                                          *)
(***************************************************************************)
\* The stored message with id i
Msg(i) == CHOOSE m \in messages : m.id = i

\* The community that owns the channel of a channel message
OwnerOf(m) == (CHOOSE c \in channels : c.id = m.channel_id).server_name

\* u is not the sender of m, has no site-admin flag and is not an admin of the
\* community owning m's channel.
Unprivileged(u, m) ==
    /\ m.sender_username # u
    /\ ~ is_site_admin(u)
    /\ ~ ( m.channel_id # NONE /\ RoleIn(OwnerOf(m), u) = "admin" )

\* The call fails without a trace: no row changes and nothing is published.
Refused ==
    /\ messages' = messages
    /\ last'.events = << >>
    /\ bus' = bus

\* The step answers a delete request; last' holds its caller and arguments.
DeleteStep == last'.op = "delete_message"

\* C5 (as stated): a delete request for a stored message by a requester who is
\* neither its sender, nor a site admin, nor an admin of the owning community
\* fails with an authorization error, changes no row and publishes nothing.
C5_UnprivilegedDeleteUnauthorized ==
    [][ ( /\ DeleteStep
          /\ \E m \in messages : m.id = last'.message_id /\ Unprivileged(last'.by, m) )
        => (last'.result = "Unauthorized" /\ Refused) ]_vars

\* C5 (amended): such a request always fails, changes no row and publishes
\* nothing; the failure is an authorization error when the request names the
\* target the message belongs to, and a bad request when it names another one.
C5_UnprivilegedDeleteRefused ==
    [][ ( /\ DeleteStep
          /\ \E m \in messages : m.id = last'.message_id /\ Unprivileged(last'.by, m) )
        => /\ Refused
           /\ last'.result =
                 IF TargetOf(Msg(last'.message_id), last'.target_type) = last'.target_id
                   THEN "Unauthorized" ELSE "BadRequest" ]_vars

\* A plain member of dev (neither admin nor sender) was refused the deletion of
\* a message of channel c2, which it named correctly.
C5_Witness ==
    /\ last.op = "delete_message"
    /\ last.result = "Unauthorized"
    /\ last.target_type = "channel"
    /\ \E m \in messages :
          /\ m.id = last.message_id
          /\ m.channel_id = last.target_id
          /\ m.is_deleted = 0
          /\ Unprivileged(last.by, m)

\* C6: when the requester is neither the sender nor a site admin, a delete
\* request succeeds only for a channel message whose owning community has the
\* requester as admin; for a conversation message it is always rejected.
C6_CommunityAdminOnlyOwnChannel ==
    [][ ( /\ DeleteStep
          /\ \E m \in messages : m.id = last'.message_id /\ m.sender_username # last'.by
          /\ ~ is_site_admin(last'.by)
          /\ \E m \in server_members : m.username = last'.by /\ m.role = "admin" )
        => LET m == Msg(last'.message_id)
           IN  /\ last'.result = "Ok" =>
                     /\ last'.target_type = "channel"
                     /\ m.channel_id = last'.target_id
                     /\ RoleIn(OwnerOf(m), last'.by) = "admin"
               /\ m.dm_id # NONE => (last'.result # "Ok" /\ Refused) ]_vars

\* An admin of dev who is no site admin has deleted another member's message
\* of channel c2.
C6_Witness ==
    /\ last.op = "delete_message"
    /\ last.result = "Ok"
    /\ ~ is_site_admin(last.by)
    /\ \E m \in messages :
          /\ m.id = last.message_id
          /\ m.sender_username # last.by
          /\ m.channel_id = "c2"
          /\ m.is_deleted = 1
          /\ RoleIn("dev", last.by) = "admin"

\* C7: a delete request by the sender of the message that names the target the
\* message belongs to succeeds and sets is_deleted, whatever the sender's role
\* or membership is at that time.
C7_SenderAlwaysDeletes ==
    [][ ( /\ DeleteStep
          /\ \E m \in messages :
                /\ m.id = last'.message_id
                /\ m.sender_username = last'.by
                /\ TargetOf(m, last'.target_type) = last'.target_id )
        => /\ last'.result = "Ok"
           /\ \E m \in messages' : m.id = last'.message_id /\ m.is_deleted = 1 ]_vars

\* bob, banned from dev after sending to c2, has deleted his message.
C7_Witness ==
    /\ last.op = "delete_message"
    /\ last.result = "Ok"
    /\ Ban("dev", last.by) \in server_bans
    /\ RoleIn("dev", last.by) = NONE
    /\ \E m \in messages :
          /\ m.id = last.message_id
          /\ m.sender_username = last.by
          /\ m.channel_id = "c2"
          /\ m.is_deleted = 1

\* C8: every stored conversation message belongs to an existing conversation
\* and was sent by one of its two participants.
C8_DmMessageOnlyByParticipant ==
    \A m \in messages :
        m.dm_id # NONE
        => \E d \in direct_messages :
              d.id = m.dm_id /\ m.sender_username \in {d.username1, d.username2}

\* The step answers a unified send request; last' holds its caller and arguments.
SendStep == last'.op = "send_message"

\* C9: a unified send to a channel is answered NotFound when the channel does
\* not exist and Unauthorized when the sender has no membership in the owning
\* community; in both cases no row is stored and nothing is published.
C9_ChannelSendChecked ==
    [][ ( SendStep /\ last'.target_type = "channel" )
        => LET t == last'.target_id
               u == last'.by
           IN  /\ (~ \E c \in channels : c.id = t)
                     => (last'.result = "NotFound" /\ Refused)
               /\ ( /\ \E c \in channels : c.id = t
                    /\ RoleIn((CHOOSE c \in channels : c.id = t).server_name, u) = NONE )
                     => (last'.result = "Unauthorized" /\ Refused) ]_vars

\* eve, who is not a member of dev, was refused a send to channel c2, and no
\* message is stored.
C9_Witness ==
    /\ last.op = "send_message"
    /\ last.target_type = "channel"
    /\ last.target_id = "c2"
    /\ last.result = "Unauthorized"
    /\ RoleIn("dev", last.by) = NONE
    /\ messages = {}

(***************************************************************************)
(* Creating and deleting communities (services/server.rs, api/servers.rs). *)
(***************************************************************************)
ServerCreated(s, u) == [type |-> "server_created", server_name |-> s, owner_username |-> u]
ServerDeleted(s)    == [type |-> "server_deleted", server_name |-> s]

\* The ids Uuid::new_v4 gives to the channels, conversations and files created
\* in one behaviour: the n-th id generated
new_v4(n) == << "g1", "g2", "g3" >>[n]

\* The result of create_server up to its INSERTs (the names used are valid)
create_server(name) ==
    IF \E s \in servers : s.name = name THEN "BadRequest" ELSE "Ok"

\* POST /servers: create_server (the server row, the creator's membership with
\* role admin, the channel "general"), then ServerCreated
create(creator_username, name) ==
    LET result == create_server(name)
        events == IF result = "Ok" THEN << ServerCreated(name, creator_username) >> ELSE << >>
    IN  /\ auth_middleware(creator_username)
        /\ result = "Ok" => uuid < MaxIds
        /\ IF result = "Ok"
             THEN /\ servers' = servers \cup { Server(name, creator_username) }
                  /\ server_members' = server_members \cup
                        { Member(name, creator_username, "admin",
                                 OnlineElsewhere(creator_username)) }
                  /\ channels' = channels \cup { Channel(new_v4(uuid + 1), name) }
                  /\ uuid' = uuid + 1
             ELSE UNCHANGED << servers, server_members, channels, uuid >>
        /\ bus' = Send(events)
        /\ last' = [op |-> "create", by |-> creator_username, server_name |-> name,
                    result |-> result, events |-> events]
        /\ UNCHANGED << users, banned_usernames, server_bans, direct_messages, messages,
                        files, connections, conn, req, hist >>

\* The result of delete_server up to its DELETE (lines 282-304)
delete_server(server_name, requester_username) ==
    IF server_name = "RChat" THEN "BadRequest"
    ELSE IF ~ \E s \in servers : s.name = server_name THEN "NotFound"
    ELSE IF /\ ~ is_site_admin(requester_username)
            /\ (CHOOSE s \in servers : s.name = server_name).creator_username
                  # requester_username
           THEN "Unauthorized"
    ELSE "Ok"

\* DELETE /servers/:server_name: delete_server, then ServerDeleted.  The DELETE
\* of the server row takes the channels, messages, members and bans of the
\* server with it (line 306).
delete_server_handler(requester_username, server_name) ==
    LET result == delete_server(server_name, requester_username)
        events == IF result = "Ok" THEN << ServerDeleted(server_name) >> ELSE << >>
        gone   == { c.id : c \in { x \in channels : x.server_name = server_name } }
    IN  /\ auth_middleware(requester_username)
        /\ IF result = "Ok"
             THEN /\ servers' = { s \in servers : s.name # server_name }
                  /\ channels' = { c \in channels : c.server_name # server_name }
                  /\ messages' = { m \in messages : m.channel_id \notin gone }
                  /\ server_members' = { m \in server_members : m.server_name # server_name }
                  /\ server_bans' = { b \in server_bans : b.server_name # server_name }
                  /\ hist' = [hist EXCEPT !.server_banned_live =
                                 { b \in @ : b.server_name # server_name }]
             ELSE UNCHANGED << servers, channels, messages, server_members, server_bans, hist >>
        /\ bus' = Send(events)
        /\ last' = [op |-> "delete_server", by |-> requester_username,
                    server_name |-> server_name, result |-> result, events |-> events]
        /\ UNCHANGED << users, banned_usernames, direct_messages, files, connections,
                        conn, req, uuid >>

(***************************************************************************)
(* The membership specification: joins, community bans, role changes,      *)
(* deletion and re-creation of the community dev.                          *)
(***************************************************************************)
InitMod == InitMsg

NextMod ==
    \/ \E u \in Senders, s \in {"dev", "Dev"} : join(u, s)
    \/ \E r \in {"ann", "root", "bob"}, u \in Senders : remove_server_member(r, "dev", u)
    \/ \E role \in {"member", "admin"} : update_member("ann", "dev", "bob", role)
    \/ \E r \in {"ann", "bob"} : delete_server_handler(r, "dev")
    \/ \E r \in {"ann", "bob"} : create(r, "dev")

SpecMod == InitMod /\ [][NextMod]_vars

\* The step answers a join request; last' holds its caller and the name given.
JoinStep == last'.op = "join"

\* The caller of the join was banned from the community named, at some time
BannedBefore ==
    \E b \in hist.server_banned :
        b.username = last'.by /\ LowerCase(b.server_name) = LowerCase(last'.server_name)

\* ... and the community has not been deleted since that ban
BannedSinceCreation ==
    \E b \in hist.server_banned_live :
        b.username = last'.by /\ LowerCase(b.server_name) = LowerCase(last'.server_name)

\* C10 (as stated): after a successful community ban of t from c, every join
\* of t to c is rejected and creates no membership row, whatever happened
\* between the ban and the join.
C10_BannedNeverJoins ==
    [][ (JoinStep /\ BannedBefore)
        => (last'.result # "Ok" /\ server_members' = server_members) ]_vars

\* C10 (amended): the same, for as long as community c has not been deleted.
C10_BannedNeverJoinsWhileCommunityLives ==
    [][ (JoinStep /\ BannedSinceCreation)
        => (last'.result = "Forbidden" /\ server_members' = server_members) ]_vars

\* bob, banned from dev, was refused a join of dev after a role change and
\* another ban had happened in dev.
C10_Witness ==
    /\ last.op = "join"
    /\ last.result = "Forbidden"
    /\ Ban("dev", last.by) \in hist.server_banned_live
    /\ Cardinality(hist.server_banned) = 2
    /\ RoleIn("dev", last.by) = NONE

(***************************************************************************)
(* Site ban (services/user_moderation.rs, site_ban_user; api/admin.rs).    *)
(*                                                                         *)
(* site_ban_user runs its statements one after the other on the pool, with *)
(* no transaction around them: each statement is one step, and the steps   *)
(* of other requests may run in between.  req.ban is the position of the   *)
(* ban request in flight.                                                  *)
(*                                                                         *)
(* The schema is created by migrations that are not part of the sources.   *)
(* The store is taken as the specification describes it: every statement   *)
(* is atomic on the rows of its own table, and no constraint ties the rows *)
(* of one table to those of another.                                       *)
(***************************************************************************)
UserBanned(u) == [type |-> "user_banned", username |-> u]

\* Rows of a table whose column col names the username u, ignoring case
NamedBy(table, col, u) == { r \in table : LowerCase(r[col]) = LowerCase(u) }

\* site_ban_check comparing target and requester with the case as typed
site_ban_check_exact_self(target_username, requester_username) ==
    IF ~ \E u \in users : /\ LowerCase(u.username) = LowerCase(requester_username)
                          /\ u.is_admin # 0
      THEN "Forbidden"
    ELSE IF NamedBy(users, "username", target_username) = {} THEN "NotFound"
    ELSE IF target_username = requester_username THEN "BadRequest"
    ELSE "Ok"

\* The checks of site_ban_user before its first write (lines 12-39)
site_ban_check(target_username, requester_username) ==
    IF ~ \E u \in users : /\ LowerCase(u.username) = LowerCase(requester_username)
                          /\ u.is_admin # 0
      THEN "Forbidden"
    ELSE IF NamedBy(users, "username", target_username) = {} THEN "NotFound"
    ELSE IF eq_ignore_ascii_case(target_username, requester_username) THEN "BadRequest"
    ELSE "Ok"

\* POST /admin/users/:username/ban: the request passes the middleware and
\* site_ban_user makes its checks; a failed check ends the request.
ban_user_handler(requester_username, username) ==
    LET result == site_ban_check(username, requester_username)
    IN  /\ req.ban.pc = "idle"
        /\ auth_middleware(requester_username)
        /\ IF result = "Ok"
             THEN /\ req' = [req EXCEPT !.ban = [pc |-> "insert_ban", by |-> requester_username,
                                                 target |-> username]]
                  /\ last' = last
             ELSE /\ req' = req
                  /\ last' = [op |-> "ban_user", by |-> requester_username,
                              username |-> username, result |-> result, events |-> << >>]
        /\ UNCHANGED << tables, connections, conn, bus, uuid, hist >>

\* INSERT INTO banned_usernames (line 41)
ban_insert ==
    /\ req.ban.pc = "insert_ban"
    /\ banned_usernames' = banned_usernames \cup { req.ban.target }
    /\ req' = [req EXCEPT !.ban.pc = "delete_messages"]
    /\ UNCHANGED << users, servers, server_members, server_bans, channels, direct_messages,
                    messages, files, connections, conn, bus, uuid, last, hist >>

\* DELETE FROM messages WHERE LOWER(sender_username) = LOWER(?) (line 48)
ban_delete_messages ==
    /\ req.ban.pc = "delete_messages"
    /\ messages' = messages \ NamedBy(messages, "sender_username", req.ban.target)
    /\ req' = [req EXCEPT !.ban.pc = "delete_members"]
    /\ UNCHANGED << users, banned_usernames, servers, server_members, server_bans, channels,
                    direct_messages, files, connections, conn, bus, uuid, last, hist >>

\* DELETE FROM server_members WHERE LOWER(username) = LOWER(?) (line 53)
ban_delete_members ==
    /\ req.ban.pc = "delete_members"
    /\ server_members' = server_members \ NamedBy(server_members, "username", req.ban.target)
    /\ req' = [req EXCEPT !.ban.pc = "delete_dms"]
    /\ UNCHANGED << users, banned_usernames, servers, server_bans, channels, direct_messages,
                    messages, files, connections, conn, bus, uuid, last, hist >>

\* DELETE FROM direct_messages WHERE LOWER(username1) = LOWER(?) OR ... (line 58)
ban_delete_dms ==
    /\ req.ban.pc = "delete_dms"
    /\ direct_messages' = direct_messages
                             \ ( NamedBy(direct_messages, "username1", req.ban.target)
                                 \cup NamedBy(direct_messages, "username2", req.ban.target) )
    /\ req' = [req EXCEPT !.ban.pc = "delete_files"]
    /\ UNCHANGED << users, banned_usernames, servers, server_members, server_bans, channels,
                    messages, files, connections, conn, bus, uuid, last, hist >>

\* DELETE FROM files WHERE LOWER(uploader_username) = LOWER(?) (line 66)
ban_delete_files ==
    /\ req.ban.pc = "delete_files"
    /\ files' = files \ NamedBy(files, "uploader_username", req.ban.target)
    /\ req' = [req EXCEPT !.ban.pc = "delete_users"]
    /\ UNCHANGED << users, banned_usernames, servers, server_members, server_bans, channels,
                    direct_messages, messages, connections, conn, bus, uuid, last, hist >>

\* DELETE FROM users WHERE LOWER(username) = LOWER(?) (line 71); site_ban_user
\* returns Ok
ban_delete_users ==
    /\ req.ban.pc = "delete_users"
    /\ users' = users \ NamedBy(users, "username", req.ban.target)
    /\ req' = [req EXCEPT !.ban.pc = "broadcast"]
    /\ UNCHANGED << banned_usernames, servers, server_members, server_bans, channels,
                    direct_messages, messages, files, connections, conn, bus, uuid, last, hist >>

\* ban_user_handler after site_ban_user has returned Ok: broadcast UserBanned
\* and answer success
ban_broadcast ==
    /\ req.ban.pc = "broadcast"
    /\ bus' = Send(<< UserBanned(req.ban.target) >>)
    /\ last' = [op |-> "ban_user", by |-> req.ban.by, username |-> req.ban.target,
                result |-> "Ok", events |-> << UserBanned(req.ban.target) >>]
    /\ hist' = [hist EXCEPT !.site_banned = @ \cup { req.ban.target }]
    /\ req' = [req EXCEPT !.ban = [pc |-> "idle"]]
    /\ UNCHANGED << tables, connections, conn, uuid >>

\* The steps of the cascade
ban_cascade ==
    \/ ban_insert
    \/ ban_delete_messages
    \/ ban_delete_members
    \/ ban_delete_dms
    \/ ban_delete_files
    \/ ban_delete_users
    \/ ban_broadcast

(***************************************************************************)
(* Unban and registration (api/admin.rs, services/auth.rs).                *)
(***************************************************************************)
\* check_admin (api/admin.rs, lines 24-37)
check_admin(username) ==
    IF ~ \E u \in users : u.username = username THEN "Database"
    ELSE IF ~ is_site_admin(username) THEN "Unauthorized"
    ELSE "Ok"

\* DELETE /admin/users/:username/ban: check_admin, then
\* DELETE FROM banned_usernames WHERE username = ?
unban_user_handler(requester_username, username) ==
    LET result == check_admin(requester_username)
    IN  /\ auth_middleware(requester_username)
        /\ banned_usernames' = IF result = "Ok" THEN banned_usernames \ { username }
                               ELSE banned_usernames
        /\ hist' = IF result = "Ok" THEN [hist EXCEPT !.unbanned = @ \cup { username }]
                   ELSE hist
        /\ last' = [op |-> "unban_user", by |-> requester_username, username |-> username,
                    result |-> result, events |-> << >>]
        /\ UNCHANGED << users, servers, server_members, server_bans, channels,
                        direct_messages, messages, files, connections, conn, bus, req, uuid >>

\* Faulty variant of validate_username: the ban log is matched with the case as typed
validate_username_exact(username) ==
    IF username \in banned_usernames THEN "BadRequest" ELSE "Ok"

\* validate_username (lines 51-83); the names used are non-empty, short and clean
validate_username(username) ==
    IF \E b \in banned_usernames : LowerCase(b) = LowerCase(username)
      THEN "BadRequest" ELSE "Ok"

\* The result of register_user up to its INSERT (lines 90-106)
register_user(username) ==
    IF validate_username(username) # "Ok" THEN validate_username(username)
    ELSE IF NamedBy(users, "username", username) # {} THEN "BadRequest"
    ELSE "Ok"

\* POST /auth/register: register_user (the users row, the membership of RChat
\* through join_server, the conversation of the user with itself), then
\* ServerMemberJoined and ServerStatsUpdated for RChat.  A failed join_server
\* fails the request after the users row has been inserted.
register(username) ==
    LET result   == register_user(username)
        is_first == ~ \E u \in users : u.username # SYSTEM_USERNAME
        joined   == join_server(DEFAULT_SERVER_NAME, username)
        answer   == IF result # "Ok" THEN result
                    ELSE IF joined \in {"Ok", "Member"} THEN "Ok" ELSE joined
        self_dm  == \E d \in direct_messages : d.username1 = username /\ d.username2 = username
        events   == IF answer = "Ok"
                      THEN << ServerMemberJoined(DEFAULT_SERVER_NAME, username),
                              ServerStatsUpdated(DEFAULT_SERVER_NAME) >>
                      ELSE << >>
    IN  /\ (answer = "Ok" /\ ~ self_dm) => uuid < MaxIds
        /\ users' = IF result = "Ok"
                      THEN users \cup { User(username, IF is_first THEN 1 ELSE 0) }
                      ELSE users
        /\ server_members' =
              IF result = "Ok" /\ joined = "Ok"
                THEN server_members \cup
                       { Member(DEFAULT_SERVER_NAME, username, "member",
                                OnlineElsewhere(username)) }
                ELSE server_members
        /\ IF answer = "Ok" /\ ~ self_dm
             THEN /\ direct_messages' = direct_messages \cup
                        { DirectMessage(new_v4(uuid + 1), username, username) }
                  /\ uuid' = uuid + 1
             ELSE UNCHANGED << direct_messages, uuid >>
        /\ bus' = Send(events)
        /\ last' = [op |-> "register", by |-> username, username |-> username,
                    result |-> answer, events |-> events]
        /\ UNCHANGED << banned_usernames, servers, server_bans, channels, messages, files,
                        connections, conn, req, hist >>

(***************************************************************************)
(* The registration specification: site bans, unbans and registrations of  *)
(* the name bob in both spellings.                                         *)
(***************************************************************************)
Names == {"bob", "Bob"}

InitReg == InitConn

NextReg ==
    \/ \E r \in {"root"} \cup Names, u \in Names : ban_user_handler(r, u)
    \/ ban_cascade
    \/ \E r \in {"root"} \cup Names, u \in Names : unban_user_handler(r, u)
    \/ \E u \in Names : register(u)

SpecReg == InitReg /\ [][NextReg]_vars

\* The step answers a registration request; last' holds the name asked for.
RegisterStep == last'.op = "register"

\* The registration is refused and no users row is added
Rejected == last'.result # "Ok" /\ users' = users

File(i, u) == [id |-> i, uploader_username |-> u]
DmCreated(d, a, b) == [type |-> "dm_created", dm_id |-> d, username1 |-> a, username2 |-> b]

\* The usernames of the model in the order of Rust's String comparison (bytes)
ByteOrder == << "Bob", "Root", "ann", "bob", "eve", "ghost", "guest", "root", "system" >>
Rank(n) == CHOOSE i \in 1..Len(ByteOrder) : ByteOrder[i] = n

\* get_or_create_dm, lines 21-24: the two names in ascending order
SortedPair(a, b) == IF Rank(a) > Rank(b) THEN << b, a >> ELSE << a, b >>

\* The result of get_or_create_dm up to its INSERT; "Exists" when the row is there
get_or_create_dm(username1, username2) ==
    LET p == SortedPair(username1, username2)
    IN  IF ~ \E u \in users : u.username = username2 THEN "NotFound"
        ELSE IF \E d \in direct_messages : d.username1 = p[1] /\ d.username2 = p[2]
               THEN "Exists"
        ELSE "Ok"

UsrOps == { [op |-> "send", arg |-> "c1"], [op |-> "join", arg |-> "dev"],
            [op |-> "dm", arg |-> "root"], [op |-> "upload", arg |-> NONE] }

\* The request passes auth_middleware (the users row of the caller exists)
usr_begin(username, o) ==
    /\ req.usr.pc = "idle"
    /\ auth_middleware(username)
    /\ uuid < (IF o.op = "send" THEN MaxMsgs ELSE MaxIds)
    /\ req' = [req EXCEPT !.usr = [pc |-> IF o.op = "upload" THEN "insert" ELSE "check",
                                   op |-> o.op, by |-> username, arg |-> o.arg,
                                   id |-> NONE]]
    /\ UNCHANGED << tables, connections, conn, bus, uuid, last, hist >>

\* The reads of the service before its INSERT
UsrChecked ==
    LET r == req.usr
    IN  CASE r.op = "send" -> send_message("channel", r.arg, r.by)
          [] r.op = "join" -> join_server(r.arg, r.by)
          [] r.op = "dm"   -> get_or_create_dm(r.by, r.arg)

\* The id of the conversation row the read of get_or_create_dm has found
FoundDm ==
    LET p == SortedPair(req.usr.by, req.usr.arg)
    IN  IF req.usr.op = "dm" /\ UsrChecked = "Exists"
          THEN (CHOOSE d \in direct_messages :
                   d.username1 = p[1] /\ d.username2 = p[2]).id
          ELSE NONE

usr_check ==
    /\ req.usr.pc = "check"
    /\ IF UsrChecked = "Ok"
         THEN /\ req' = [req EXCEPT !.usr.pc = "insert"]
              /\ last' = last
         ELSE IF UsrChecked \in {"Member", "Exists"}
         THEN /\ req' = [req EXCEPT !.usr.pc = "answer", !.usr.id = FoundDm]
              /\ last' = last
         ELSE /\ req' = [req EXCEPT !.usr = [pc |-> "idle"]]
              /\ last' = [op |-> req.usr.op, by |-> req.usr.by, arg |-> req.usr.arg,
                          result |-> UsrChecked, events |-> << >>]
    /\ UNCHANGED << tables, connections, conn, bus, uuid, hist >>

\* The INSERT of the service: a message, a membership, a conversation or a file
\* (api/files.rs, upload: the uploader recorded is always the system user).
\* The schema is not part of the sources read here: enforced tells whether the
\* store refuses a row that names a user without a users row; both outcomes
\* are taken.
usr_insert(enforced) ==
    LET r == req.usr
        p == SortedPair(r.by, r.arg)
        refused == /\ enforced
                   /\ r.op # "upload"
                   /\ ~ \E u \in users : u.username = r.by
    IN  /\ r.pc = "insert"
        /\ IF refused
             THEN /\ req' = [req EXCEPT !.usr = [pc |-> "idle"]]
                  /\ last' = [op |-> r.op, by |-> r.by, arg |-> r.arg,
                              result |-> "Database", events |-> << >>]
                  /\ UNCHANGED << messages, server_members, direct_messages, files,
                                  hist, uuid >>
             ELSE /\ messages' =
                        IF r.op = "send"
                          THEN messages \cup { NewRow("channel", r.arg, r.by) }
                          ELSE messages
                  /\ server_members' =
                        IF r.op = "join"
                          THEN server_members \cup
                                 { Member(r.arg, r.by, "member", OnlineElsewhere(r.by)) }
                          ELSE server_members
                  /\ direct_messages' =
                        IF r.op = "dm"
                          THEN direct_messages \cup
                                 { DirectMessage(new_v4(uuid + 1), p[1], p[2]) }
                          ELSE direct_messages
                  /\ files' =
                        IF r.op = "upload"
                          THEN files \cup { File(new_v4(uuid + 1), SYSTEM_USERNAME) }
                          ELSE files
                  /\ hist' = IF r.op = "upload"
                               THEN [hist EXCEPT !.uploaded =
                                        @ \cup { [id |-> new_v4(uuid + 1), by |-> r.by] }]
                               ELSE hist
                  /\ uuid' = IF r.op = "join" THEN uuid ELSE uuid + 1
                  /\ req' = [req EXCEPT !.usr.pc = "answer",
                                         !.usr.id = CASE r.op = "send" -> uuid + 1
                                                      [] r.op = "join" -> NONE
                                                      [] OTHER -> new_v4(uuid + 1)]
                  /\ last' = last
        /\ UNCHANGED << users, banned_usernames, servers, server_bans, channels,
                        connections, conn, bus >>

\* The end of the request: send_message reads the sender's profile
\* (fetch_one: an error when the users row is gone), then the endpoint
\* broadcasts its event and answers
usr_answer ==
    LET r      == req.usr
        result == IF r.op = "send" /\ ~ \E u \in users : u.username = r.by
                    THEN "Database" ELSE "Ok"
        events == CASE result # "Ok" -> << >>
                    [] r.op = "send" /\ result = "Ok" ->
                          << NewMessage(Message(r.id, r.arg, NONE, r.by, 0)) >>
                    [] r.op = "join" /\ result = "Ok" ->
                          << ServerMemberJoined(r.arg, r.by), ServerStatsUpdated(r.arg) >>
                    [] r.op = "dm" /\ result = "Ok" -> << DmCreated(r.id, r.by, r.arg) >>
                    [] OTHER -> << >>
    IN  /\ r.pc = "answer"
        /\ bus' = Send(events)
        /\ last' = [op |-> r.op, by |-> r.by, arg |-> r.arg, result |-> result,
                    events |-> events]
        /\ req' = [req EXCEPT !.usr = [pc |-> "idle"]]
        /\ UNCHANGED << tables, connections, conn, uuid, hist >>

(***************************************************************************)
(* The site-ban specification: root bans bob while bob's requests run.     *)
(***************************************************************************)
InitBan == InitConn

NextBan ==
    \/ \E r \in {"root", "bob"}, u \in {"bob", "Bob"} : ban_user_handler(r, u)
    \/ ban_cascade
    \/ \E o \in UsrOps : usr_begin("bob", o)
    \/ usr_check
    \/ \E enforced \in BOOLEAN : usr_insert(enforced)
    \/ usr_answer

SpecBan == InitBan /\ [][NextBan]_vars

\* No row of the store refers to the user u, and no file that u uploaded is stored
NoTrace(u) ==
    /\ NamedBy(messages, "sender_username", u) = {}
    /\ NamedBy(server_members, "username", u) = {}
    /\ NamedBy(direct_messages, "username1", u) = {}
    /\ NamedBy(direct_messages, "username2", u) = {}
    /\ NamedBy(files, "uploader_username", u) = {}
    /\ ~ \E f \in files : \E h \in NamedBy(hist.uploaded, "by", u) : h.id = f.id
    /\ NamedBy(users, "username", u) = {}

\* C3: once the site ban of u has answered success, no message, membership,
\* conversation, file or users row of u exists, whatever requests of u ran
\* between the steps of the cascade.
C3_NoTraceAfterSiteBan ==
    \A u \in hist.site_banned : NoTrace(u)


(***************************************************************************)
(* Channels of a community: create, and the soft delete.  delete_channel   *)
(* is a read followed by two UPDATE statements on the pool, so a request   *)
(* is three steps and several requests interleave.  In this specification  *)
(* req maps each request slot to the position of its request; a slot      *)
(* serves one request.                                                     *)
(***************************************************************************)
MaxReqs == 2        \* channel delete requests in flight at once
ChanReqs == 1..MaxReqs

ChannelCreated(s, c) == [type |-> "channel_created", server_name |-> s, channel_id |-> c]
ChannelDeleted(s, c) == [type |-> "channel_deleted", server_name |-> s, channel_id |-> c]

\* SELECT COUNT(*) FROM channels WHERE server_name = ? AND is_active = 1
ActiveCount(server_name) ==
    Cardinality({ c \in channels : c.server_name = server_name /\ c.is_active = 1 })

\* delete_channel with the guard off by one
delete_channel_below_one(channel_count) ==
    IF channel_count < 1 THEN "BadRequest" ELSE "Ok"

\* delete_channel, lines 66-70: the guard on the count it has read
delete_channel(channel_count) ==
    IF channel_count <= 1 THEN "BadRequest" ELSE "Ok"

\* UPDATE servers SET channel_count = channel_count + d WHERE name = ?
BumpCount(server_name, d) ==
    { IF s.name = server_name THEN [s EXCEPT !.channel_count = @ + d] ELSE s : s \in servers }

\* POST /servers/:server_name/channels
channels_create(server_name) ==
    /\ uuid < MaxIds
    /\ \A r \in ChanReqs : req[r].pc \in {"idle", "done"}
    /\ channels' = channels \cup { Channel(new_v4(uuid + 1), server_name) }
    /\ servers' = BumpCount(server_name, 1)
    /\ uuid' = uuid + 1
    /\ LET events == << ChannelCreated(server_name, new_v4(uuid + 1)),
                        ServerStatsUpdated(server_name) >>
       IN  /\ bus' = Send(events)
           /\ last' = [op |-> "create_channel", server_name |-> server_name,
                       channel_id |-> new_v4(uuid + 1), count |-> 0,
                       result |-> "Ok", events |-> events]
    /\ UNCHANGED << users, banned_usernames, server_members, server_bans, direct_messages,
                    messages, files, connections, conn, req, hist >>

\* DELETE /servers/:server_name/channels/:channel_id, the read of the count
remove_read(r, server_name, channel_id) ==
    LET channel_count == ActiveCount(server_name)
    IN  /\ req[r].pc = "idle"
        /\ IF delete_channel(channel_count) = "Ok"
             THEN /\ req' = [req EXCEPT ![r] = [pc |-> "update",
                                                server_name |-> server_name,
                                                channel_id |-> channel_id,
                                                count |-> channel_count]]
                  /\ last' = NoLast
             ELSE /\ req' = [req EXCEPT ![r] = [pc |-> "done"]]
                  /\ last' = [op |-> "remove", server_name |-> server_name,
                              channel_id |-> channel_id, count |-> channel_count,
                              result |-> "BadRequest", events |-> << >>]
        /\ UNCHANGED << tables, connections, conn, bus, uuid, hist >>

\* UPDATE channels SET is_active = 0 WHERE id = ?
remove_update(r) ==
    /\ req[r].pc = "update"
    /\ channels' = { IF c.id = req[r].channel_id THEN [c EXCEPT !.is_active = 0] ELSE c :
                     c \in channels }
    /\ req' = [req EXCEPT ![r].pc = "count"]
    /\ last' = NoLast
    /\ UNCHANGED << users, banned_usernames, servers, server_members, server_bans,
                    direct_messages, messages, files, connections, conn, bus, uuid, hist >>

\* UPDATE servers SET channel_count = channel_count - 1; then the endpoint broadcasts
remove_count(r) ==
    LET events == << ChannelDeleted(req[r].server_name, req[r].channel_id),
                     ServerStatsUpdated(req[r].server_name) >>
    IN  /\ req[r].pc = "count"
        /\ servers' = BumpCount(req[r].server_name, -1)
        /\ bus' = Send(events)
        /\ last' = [op |-> "remove", server_name |-> req[r].server_name,
                    channel_id |-> req[r].channel_id, count |-> req[r].count,
                    result |-> "Ok", events |-> events]
        /\ req' = [req EXCEPT ![r] = [pc |-> "done"]]
        /\ UNCHANGED << users, banned_usernames, server_members, server_bans, channels,
                        direct_messages, messages, files, connections, conn, uuid, hist >>

ChanServers == { DEFAULT_SERVER_NAME, "dev" }
ChanIds == { "c1", "c2", "c3" }

\* RChat with its channel c1, dev with the channels c2 and c3
InitChan ==
    /\ users = { User(SYSTEM_USERNAME, 0), User("root", 1) }
    /\ banned_usernames = {}
    /\ servers = { Server(DEFAULT_SERVER_NAME, SYSTEM_USERNAME),
                   [Server("dev", "root") EXCEPT !.channel_count = 2] }
    /\ server_members = { Member(DEFAULT_SERVER_NAME, "root", "member", FALSE),
                          Member("dev", "root", "admin", FALSE) }
    /\ server_bans = {}
    /\ channels = { Channel("c1", DEFAULT_SERVER_NAME), Channel("c2", "dev"),
                    Channel("c3", "dev") }
    /\ direct_messages = {}
    /\ messages = {}
    /\ files = {}
    /\ connections = {}
    /\ conn = [c \in ConnIds |-> IdleConn]
    /\ bus = << >>
    /\ req = [r \in ChanReqs |-> [pc |-> "idle"]]
    /\ uuid = 0
    /\ last = NoLast
    /\ hist = InitHist

NextChan ==
    \/ \E s \in ChanServers : channels_create(s)
    \/ \E r \in ChanReqs, s \in ChanServers, c \in ChanIds : remove_read(r, s, c)
    \/ \E r \in ChanReqs : remove_update(r)
    \/ \E r \in ChanReqs : remove_count(r)

SpecChan == InitChan /\ [][NextChan]_vars

\* C11: every community has at least one active channel in every reachable state
C11_CommunityKeepsActiveChannel ==
    \A s \in servers : ActiveCount(s.name) >= 1

\* C12: a delete_channel call that has read exactly one active channel for its
\* community answers a rejection and changes no channel row and no channel
\* counter; no call proceeds to its updates on a count of one or less.
C12_LastChannelDeleteRejected ==
    [][ /\ \A r \in ChanReqs : req'[r].pc \in {"update", "count"} => req'[r].count > 1
        /\ (last'.op = "remove" /\ last'.count = 1)
             => /\ last'.result = "BadRequest"
                /\ last'.events = << >>
                /\ channels' = channels
                /\ servers' = servers ]_vars

\* The delete of c1, the only active channel of RChat, was rejected
C12_Witness ==
    /\ last.op = "remove"
    /\ last.server_name = DEFAULT_SERVER_NAME
    /\ last.channel_id = "c1"
    /\ last.count = 1
    /\ last.result = "BadRequest"
    /\ \E c \in channels : c.id = "c1" /\ c.is_active = 1


\* C13: a send or delete call that has inserted (resp. soft-deleted) a message
\* publishes exactly one event, which names that message; a call that leaves
\* the messages table as it was (a failed call, or a delete of a message that
\* is deleted already) publishes none.
C13_OneEventPerStoreChange ==
    [][ (last'.op \in {"send_message", "dms_send_dm_message", "delete_message"})
        => IF messages' # messages
             THEN /\ Len(last'.events) = 1
                  /\ \E m \in messages' \ messages : last'.events[1].message_id = m.id
             ELSE last'.events = << >> ]_vars


(***************************************************************************)
(* The broadcast bus under load.  ConnectionManager::new creates the bus   *)
(* with broadcast::channel(1000): the channel retains the newest events up *)
(* to its capacity; a subscriber that is further behind gets               *)
(* RecvError::Lagged from its next recv and resumes at the oldest retained *)
(* event.  The capacity is scaled down so that a subscriber can fall       *)
(* behind within a few publishes.  bus is the log of every event the       *)
(* channel has accepted, conn[c].rx the number of log entries subscriber c *)
(* is past.  hist records, per connection, the log position at which it    *)
(* subscribed, the events written to its socket and the events it lost.    *)
(***************************************************************************)
Capacity == 2       \* capacity of the broadcast channel (1000 in ConnectionManager::new)
MaxPub == 4         \* events published in one behaviour

Event(n) == [type |-> "other", n |-> n]

\* The oldest log entry the channel still retains
Oldest == IF Len(bus) > Capacity THEN Len(bus) - Capacity + 1 ELSE 1

\* The retained entries some running subscriber has not received yet
Buffered ==
    { i \in Oldest .. Len(bus) :
        \E c \in ConnIds : conn[c].send_task = "running" /\ conn[c].rx < i }

\* A subscription that starts one event before the end of the log
subscribe_replay == IF Len(bus) > 0 THEN Len(bus) - 1 ELSE Len(bus)

\* broadcast_tx.subscribe() (line 96): the receiver starts after the newest event
subscribe == Len(bus)

\* send_task on RecvError::Lagged, ending the task instead of continuing
on_lagged_break == "done"

\* send_task on RecvError::Lagged (lines 115-117): continue
on_lagged == "running"

\* send_task after a failed socket write, carrying on instead of breaking
on_write_error_continue == "running"

\* send_task after a failed socket write (lines 110-113): break
on_write_error == "done"

\* handle_connection for a guest (lines 95-145): subscribe, register, spawn the
\* two tasks; set_user_online does nothing for a guest
bus_subscribe(c) ==
    /\ conn[c].pc = "idle"
    /\ conn' = [conn EXCEPT ![c] = [username |-> GUEST_USERNAME, pc |-> "select",
                                    send_task |-> "running", recv_task |-> "running",
                                    socket |-> "open", rx |-> subscribe]]
    /\ connections' = connections \cup {c}
    /\ hist' = [hist EXCEPT !.sub[c] = Len(bus)]
    /\ last' = NoLast
    /\ UNCHANGED << tables, bus, req, uuid >>

\* ConnectionManager::broadcast (lines 155-157): the result of send is dropped
broadcast ==
    /\ hist.other < MaxPub
    /\ bus' = Send(<< Event(hist.other + 1) >>)
    /\ hist' = [hist EXCEPT !.other = @ + 1]
    /\ last' = [op |-> "broadcast", n |-> hist.other + 1, result |-> "Ok"]
    /\ UNCHANGED << tables, connections, conn, req, uuid >>

\* send_task, one turn of its loop (lines 105-123) on the bounded channel
send_task_recv(c) ==
    /\ conn[c].send_task = "running"
    /\ conn[c].rx < Len(bus)
    /\ IF conn[c].rx + 1 < Oldest
         THEN /\ conn' = [conn EXCEPT ![c].rx = Oldest - 1, ![c].send_task = on_lagged]
              /\ hist' = [hist EXCEPT !.lost[c] = @ + (Oldest - 1 - conn[c].rx)]
         ELSE IF conn[c].socket = "open"
         THEN /\ conn' = [conn EXCEPT ![c].rx = @ + 1]
              /\ hist' = [hist EXCEPT !.delivered[c] = Append(@, bus[conn[c].rx + 1])]
         ELSE /\ conn' = [conn EXCEPT ![c].rx = @ + 1, ![c].send_task = on_write_error]
              /\ hist' = hist
    /\ last' = NoLast
    /\ UNCHANGED << tables, connections, bus, req, uuid >>

\* The socket of a connection starts to fail
bus_socket_fail(c) ==
    /\ conn[c].socket = "open"
    /\ conn' = [conn EXCEPT ![c].socket = "closed"]
    /\ last' = NoLast
    /\ UNCHANGED << tables, connections, bus, req, uuid, hist >>

InitBus ==
    /\ users = { User(SYSTEM_USERNAME, 0) }
    /\ banned_usernames = {}
    /\ servers = { Server(DEFAULT_SERVER_NAME, SYSTEM_USERNAME) }
    /\ server_members = {}
    /\ server_bans = {}
    /\ channels = { Channel("c1", DEFAULT_SERVER_NAME) }
    /\ direct_messages = {}
    /\ messages = {}
    /\ files = {}
    /\ connections = {}
    /\ conn = [c \in ConnIds |-> IdleConn]
    /\ bus = << >>
    /\ req = IdleReq
    /\ uuid = 0
    /\ last = NoLast
    /\ hist = [other |-> 0, sub |-> [c \in ConnIds |-> 0],
               delivered |-> [c \in ConnIds |-> << >>], lost |-> [c \in ConnIds |-> 0]]

NextBus ==
    \/ \E c \in ConnIds : bus_subscribe(c)
    \/ broadcast
    \/ \E c \in ConnIds : send_task_recv(c)
    \/ \E c \in ConnIds : bus_socket_fail(c)

SpecBus == InitBus /\ [][NextBus]_vars


\* Subscriber c takes the Lagged turn of its loop
LagStep(c) ==
    /\ conn[c].send_task = "running"
    /\ conn[c].rx + 1 < Oldest
    /\ conn'[c].rx # conn[c].rx

\* Subscriber c takes an event off the channel while its socket fails
WriteFailStep(c) ==
    /\ conn[c].send_task = "running"
    /\ conn[c].socket = "closed"
    /\ conn[c].rx + 1 >= Oldest
    /\ conn'[c].rx = conn[c].rx + 1

\* Every connection other than c is left as it is
OthersUntouched(c) ==
    \A d \in ConnIds \ {c} :
        /\ conn'[d] = conn[d]
        /\ hist'.delivered[d] = hist.delivered[d]
        /\ hist'.lost[d] = hist.lost[d]

\* A subscriber that has lost nothing has written every event between its
\* subscription and its position in the log (the last one not, if the write failed)
NothingMissed(c) ==
    hist.lost[c] = 0 =>
        \/ hist.delivered[c] = SubSeq(bus, hist.sub[c] + 1, conn[c].rx)
        \/ /\ conn[c].socket = "closed"
           /\ conn[c].rx > hist.sub[c]
           /\ hist.delivered[c] = SubSeq(bus, hist.sub[c] + 1, conn[c].rx - 1)

\* C14: publish is always possible and always answers success, whatever the
\* subscribers do; no more than Capacity events are buffered; a subscriber that
\* is behind by more than Capacity loses exactly its oldest undelivered events,
\* keeps running and resumes at the oldest retained event, and no other
\* subscriber is affected by that.
C14_PublishNeverBlocksLagDropsOldest ==
    /\ [](Cardinality(Buffered) <= Capacity)
    /\ [](hist.other < MaxPub => ENABLED broadcast)
    /\ [][ last'.op = "broadcast"
             => /\ last'.result = "Ok"
                /\ conn' = conn
                /\ (HasReceiver => bus' = Append(bus, Event(last'.n))) ]_vars
    /\ [][ \A c \in ConnIds :
             LagStep(c) => /\ conn'[c].send_task = "running"
                           /\ conn'[c].rx = Oldest - 1
                           /\ hist'.lost[c] = hist.lost[c] + (Oldest - 1 - conn[c].rx)
                           /\ hist'.delivered[c] = hist.delivered[c]
                           /\ bus' = bus
                           /\ OthersUntouched(c) ]_vars

\* Connection 1 fell behind, lost events and then wrote the newest event, while
\* connection 2 has written every event since its subscription
C14_Witness ==
    /\ Len(bus) > Capacity
    /\ hist.lost[1] > 0
    /\ Len(hist.delivered[1]) > 0
    /\ hist.delivered[1][Len(hist.delivered[1])] = bus[Len(bus)]
    /\ hist.lost[2] = 0
    /\ hist.delivered[2] = SubSeq(bus, hist.sub[2] + 1, Len(bus))
    /\ Len(hist.delivered[2]) > Capacity

\* C15: the events written to the socket of a connection are events of the log
\* after the position at which the connection subscribed, in the order of the
\* log and each at most once.
C15_DeliveryInPublishOrder ==
    \A c \in ConnIds :
        LET d == hist.delivered[c]
        IN  /\ \A i \in 1 .. Len(d) :
                  \E j \in (hist.sub[c] + 1) .. Len(bus) : bus[j] = d[i]
            /\ \A i, k \in 1 .. Len(d) : i < k => d[i].n < d[k].n

\* A connection that subscribed after the first event has written two later events
C15_Witness ==
    \E c \in ConnIds :
        /\ hist.sub[c] > 0
        /\ Len(hist.delivered[c]) >= 2

\* C16: a failed socket write ends the send_task of that connection and changes
\* neither the bus nor any other connection; publish still succeeds while a
\* subscriber runs, and a connection that has not lagged misses no event.
C16_WriteFailureEndsOnlyThatConnection ==
    /\ [][ \A c \in ConnIds :
             WriteFailStep(c) => /\ conn'[c].send_task = "done"
                                 /\ bus' = bus
                                 /\ OthersUntouched(c) ]_vars
    /\ [][ (last'.op = "broadcast" /\ HasReceiver)
             => (last'.result = "Ok" /\ Len(bus') = Len(bus) + 1) ]_vars
    /\ [](\A c \in ConnIds : NothingMissed(c))

\* The write of one connection has failed and its task has ended; after that
\* another connection has written a later event
C16_Witness ==
    \E c, d \in ConnIds :
        /\ c # d
        /\ conn[c].send_task = "done"
        /\ conn[d].send_task = "running"
        /\ hist.lost[d] = 0
        /\ Len(hist.delivered[d]) > 0
        /\ hist.delivered[d][Len(hist.delivered[d])].n > bus[conn[c].rx].n


(***************************************************************************)
(* Presence on connect.                                                    *)
(***************************************************************************)
\* Connections come and go; nothing else publishes
NextPres ==
    \/ \E c \in ConnIds, u \in ConnUsers : handle_connection(c, u)
    \/ \E c \in ConnIds : set_user_online_update(c)
    \/ \E c \in ConnIds : set_user_online_send(c)
    \/ \E c \in ConnIds : socket_close(c)
    \/ \E c \in ConnIds : recv_task_exit(c)
    \/ \E c \in ConnIds : select_wake(c)
    \/ \E c \in ConnIds : set_user_offline_update(c)
    \/ \E c \in ConnIds : set_user_offline_send(c)

SpecPres == InitConn /\ [][NextPres]_vars

\* The handler of c takes the step that leaves the position pc
LeavesPc(c, pc) == conn[c].pc = pc /\ conn'[c].pc # pc

\* es holds one online event for each membership of username, and nothing else
OnePerMembership(es, username) ==
    /\ Len(es) = Cardinality(MembershipsOf(username))
    /\ \A m \in MembershipsOf(username) :
          \E i \in 1 .. Len(es) :
              es[i] = UserOnlineStatusChanged(m.server_name, username, TRUE)

\* C17: the connect of a non-guest identity sets the online flag of each of its
\* memberships and then sends exactly one online event per membership; the
\* connect and the disconnect of the guest identity change no membership row
\* and send nothing.
C17_ConnectMarksOnlineGuestsDoNot ==
    [][ \A c \in ConnIds :
          /\ (LeavesPc(c, "set_online") /\ conn[c].username # GUEST_USERNAME)
               => /\ \A m \in server_members' :
                        LowerCase(m.username) = LowerCase(conn[c].username) => m.is_online
                  /\ conn'[c].pc = "set_online_send"
          /\ LeavesPc(c, "set_online_send")
               => /\ conn[c].username # GUEST_USERNAME
                  /\ server_members' = server_members
                  /\ HasReceiver =>
                        \E es \in { PresenceEvents(conn[c].username, TRUE) } :
                           /\ bus' = bus \o es
                           /\ OnePerMembership(es, conn[c].username)
          /\ ( /\ LeavesPc(c, "set_online") \/ LeavesPc(c, "set_offline")
               /\ conn[c].username = GUEST_USERNAME )
               => /\ server_members' = server_members
                  /\ bus' = bus
                  /\ conn'[c].pc \in {"select", "returned"} ]_vars

\* bob is connected and online in both of his communities, both online events
\* are on the bus, and a guest has connected and disconnected
C17_Witness ==
    /\ \E c \in ConnIds : conn[c].username = "bob" /\ conn[c].pc = "select"
    /\ \A m \in MembershipsOf("bob") : m.is_online
    /\ \A m \in MembershipsOf("bob") :
          \E i \in 1 .. Len(bus) :
              bus[i] = UserOnlineStatusChanged(m.server_name, "bob", TRUE)
    /\ \E d \in ConnIds : conn[d].username = GUEST_USERNAME /\ conn[d].pc = "returned"


(***************************************************************************)
(* The content of a message: its validation and the profanity filter.      *)
(* A content is described by what the code reads of it: its length in      *)
(* bytes, whether it is blank after trim(), and whether the filter library *)
(* flags it; starred tells a censored copy from the raw text.  The filter  *)
(* (rustrict) is a library: is_inappropriate flags a text, censor returns  *)
(* the text with the offending letters replaced by '*' (profanity.rs,      *)
(* tests at lines 22-34).                                                  *)
(***************************************************************************)
MAX_CONTENT_LEN == 4000
MaxTexts == 2       \* messages stored in one behaviour of the content specification

ContentLens == { 0, 1, MAX_CONTENT_LEN, MAX_CONTENT_LEN + 1 }

\* The texts a request can carry: an empty text is blank, a blank text is not flagged
Contents ==
    { t \in [len : ContentLens, blank : BOOLEAN, profane : BOOLEAN, starred : {FALSE}] :
        /\ t.len = 0 => t.blank
        /\ t.blank => ~ t.profane }

is_inappropriate(text) == text.profane
censor(text) == [text EXCEPT !.starred = TRUE]

\* filter_profanity (profanity.rs, lines 3-12)
filter_profanity(text) ==
    IF is_inappropriate(text) THEN << censor(text), TRUE >> ELSE << text, FALSE >>

\* validate_message_content (validation.rs, lines 90-104); no request handler calls it
validate_message_content(content) ==
    IF content.len = 0 THEN "Validation"
    ELSE IF content.len > MAX_CONTENT_LEN THEN "Validation"
    ELSE "Ok"

\* send_channel_message, lines 89-95: filter status and censored copy (an Option,
\* here a sequence of at most one text)
channel_filter(content) ==
    LET r == filter_profanity(content)
    IN  IF r[2] THEN [filter_status |-> "filtered", filtered_content |-> << r[1] >>]
        ELSE [filter_status |-> "clean", filtered_content |-> << >>]

\* send_dm_message filtering a conversation message like a channel message
dm_filter_as_channel(content) == channel_filter(content)

\* send_dm_message, lines 178-193: never filtered
dm_filter(content) == [filter_status |-> "clean", filtered_content |-> << >>]

\* create_message, lines 15-25: the checks on the content
create_message_check(content) ==
    IF content.blank THEN "Validation"
    ELSE IF content.len > MAX_CONTENT_LEN THEN "Validation"
    ELSE "Ok"

\* create_message, lines 27-42: the filter runs for a channel target only
create_message_filter(channel_id, content) ==
    LET r == IF channel_id # NONE THEN filter_profanity(content) ELSE << content, FALSE >>
    IN  [filter_status |-> IF r[2] THEN "filtered" ELSE "clean",
         filtered_content |-> IF r[2] THEN << r[1] >> ELSE << >>]

TextMessage(i, channel_id, dm_id, u, content, f) ==
    [id |-> i, channel_id |-> channel_id, dm_id |-> dm_id, sender_username |-> u,
     content |-> content, filtered_content |-> f.filtered_content,
     filter_status |-> f.filter_status, is_deleted |-> 0]

\* POST /messages by a member of the channel c1 (bob) or a participant of the
\* conversation d1 (bob): send_message, which reads the target and the sender
\* and inserts the row.  The schema is not part of the sources read here:
\* enforced tells whether the store itself refuses a content outside 1..4000.
post_message(target_type, content, enforced) ==
    LET f   == IF target_type = "channel" THEN channel_filter(content) ELSE dm_filter(content)
        row == IF target_type = "channel"
                 THEN TextMessage(uuid + 1, "c1", NONE, "bob", content, f)
                 ELSE TextMessage(uuid + 1, NONE, "d1", "bob", content, f)
        refused == enforced /\ validate_message_content(content) # "Ok"
    IN  /\ refused \/ uuid < MaxTexts
        /\ send_message(target_type, IF target_type = "channel" THEN "c1" ELSE "d1", "bob")
              = "Ok"
        /\ messages' = IF refused THEN messages ELSE messages \cup { row }
        /\ uuid' = IF refused THEN uuid ELSE uuid + 1
        /\ last' = [op |-> "post_message", target_type |-> target_type,
                    content |-> content, result |-> IF refused THEN "Database" ELSE "Ok"]
        /\ UNCHANGED << users, banned_usernames, servers, server_members, server_bans,
                        channels, direct_messages, files, connections, conn, bus, req, hist >>

\* POST /dms/d1/messages by bob: create_message with a conversation target
post_dm_message(content) ==
    LET result == create_message_check(content)
        row    == TextMessage(uuid + 1, NONE, "d1", "bob", content,
                              create_message_filter(NONE, content))
    IN  /\ result # "Ok" \/ uuid < MaxTexts
        /\ messages' = IF result = "Ok" THEN messages \cup { row } ELSE messages
        /\ uuid' = IF result = "Ok" THEN uuid + 1 ELSE uuid
        /\ last' = [op |-> "post_dm_message", target_type |-> "direct_message",
                    content |-> content, result |-> result]
        /\ UNCHANGED << users, banned_usernames, servers, server_members, server_bans,
                        channels, direct_messages, files, connections, conn, bus, req, hist >>

InitText == InitMsg

NextText ==
    \/ \E t \in {"channel", "direct_message"}, content \in Contents, enforced \in BOOLEAN :
          post_message(t, content, enforced)
    \/ \E content \in Contents : post_dm_message(content)

SpecText == InitText /\ [][NextText]_vars

\* C18: a stored channel message whose content the filter flags has the status
\* "filtered" and a censored copy that is the filter's output, is not empty and
\* differs from the raw content; a stored channel message the filter does not
\* flag is "clean" without a censored copy; a stored conversation message is
\* always "clean" without a censored copy.
C18_FilterOnlyChannelMessages ==
    \A m \in messages :
        IF m.channel_id # NONE /\ is_inappropriate(m.content)
          THEN /\ m.filter_status = "filtered"
               /\ m.filtered_content = << filter_profanity(m.content)[1] >>
               /\ m.filtered_content[1].len > 0
               /\ m.filtered_content[1] # m.content
          ELSE /\ m.filter_status = "clean"
               /\ m.filtered_content = << >>

\* A flagged channel message is stored filtered with its censored copy, and a
\* conversation message with the same content is stored clean
C18_Witness ==
    \E m, d \in messages :
        /\ is_inappropriate(m.content)
        /\ m.channel_id = "c1"
        /\ m.filter_status = "filtered"
        /\ m.filtered_content = << censor(m.content) >>
        /\ d.dm_id = "d1"
        /\ d.content = m.content
        /\ d.filter_status = "clean"

\* C19: every send request whose content is empty or longer than 4000 is
\* answered with a validation error and stores nothing, and every stored
\* message has a content length between 1 and 4000.
C19_ContentLengthValidated ==
    /\ [](\A m \in messages : m.content.len >= 1 /\ m.content.len <= MAX_CONTENT_LEN)
    /\ [][ ( /\ last'.op \in {"post_message", "post_dm_message"}
             /\ validate_message_content(last'.content) # "Ok" )
           => (last'.result = "Validation" /\ messages' = messages) ]_vars


\* C20: a delete request for a stored message that names a channel or a
\* conversation the message does not belong to is answered BadRequest, whoever
\* the requester is; the message is unchanged and nothing is published.
C20_CrossTargetDeleteBadRequest ==
    [][ ( /\ DeleteStep
          /\ \E m \in messages :
                /\ m.id = last'.message_id
                /\ TargetOf(m, last'.target_type) # last'.target_id )
        => (last'.result = "BadRequest" /\ Refused) ]_vars

\* The sender, and the site admin, have each been refused the delete of a
\* message of channel c1 through another target
C20_Witness ==
    /\ last.op = "delete_message"
    /\ last.result = "BadRequest"
    /\ \E m \in messages :
          /\ m.id = last.message_id
          /\ m.channel_id = "c1"
          /\ m.is_deleted = 0
          /\ last.target_id # "c1"
          /\ last.by = m.sender_username \/ is_site_admin(last.by)

(***************************************************************************)
(* Reading messages back: services/messaging.rs (get_messages),            *)
(* api/unified_messages.rs (GET /messages), api/public.rs                  *)
(* (GET /public/channels/:channel_id/messages) and api/direct_messages.rs  *)
(* (GET /dms/:dm_id/messages).  A read answers a page of the rows its      *)
(* WHERE clause selects, newest first; created_at grows with the id.       *)
(***************************************************************************)
RECURSIVE ByCreatedDesc(_)
ByCreatedDesc(rows) ==
    IF rows = {} THEN << >>
    ELSE LET m == CHOOSE x \in rows : \A y \in rows : y.id <= x.id
         IN  << m >> \o ByCreatedDesc(rows \ {m})

\* ORDER BY created_at DESC LIMIT ? OFFSET ?
Page(rows, limit, offset) ==
    LET s  == ByCreatedDesc(rows)
        to == IF offset + limit < Len(s) THEN offset + limit ELSE Len(s)
    IN  SubSeq(s, offset + 1, to)

\* Option::unwrap_or on a query parameter (an Option is a sequence of at most one value)
unwrap_or(o, d) == IF o = << >> THEN d ELSE o[1]

\* i64::min
min(a, b) == IF a < b THEN a ELSE b

\* JOIN users u ON m.sender_username = u.username
JoinUsers(rows) == { m \in rows : \E u \in users : u.username = m.sender_username }

\* get_dm_messages returning the soft-deleted rows too
get_dm_messages_with_deleted(dm_id, limit, offset) ==
    Page({ m \in messages : m.dm_id = dm_id }, limit, offset)

\* messaging::get_messages (lines 235-269)
get_messages(target_type, target_id, limit, offset) ==
    IF target_type = "channel"
      THEN Page(JoinUsers({ m \in messages : m.channel_id = target_id /\ m.is_deleted = 0 }),
                limit, offset)
      ELSE Page(JoinUsers({ m \in messages : m.dm_id = target_id /\ m.is_deleted = 0 }),
                limit, offset)

\* public::get_messages (lines 85-105): the query of the public channel read-back
public_get_messages(channel_id, limit, offset) ==
    Page(JoinUsers({ m \in messages : m.channel_id = channel_id /\ m.is_deleted = 0 }),
         limit, offset)

\* direct_messages::get_dm_messages (lines 113-131): the query
get_dm_messages(dm_id, limit, offset) ==
    Page({ m \in messages : m.dm_id = dm_id /\ m.is_deleted = 0 }, limit, offset)

\* The answer of a read request
Answer(path, target_id, result) ==
    /\ last' = [op |-> "get_messages", path |-> path, target_id |-> target_id,
                result |-> result]
    /\ UNCHANGED << tables, connections, conn, bus, req, uuid, hist >>

\* GET /messages?target_type=..&target_id=..&limit=..&offset=..
get_messages_handler(username, target_type, target_id, limit, offset) ==
    /\ auth_middleware(username)
    /\ Answer("unified", target_id,
              get_messages(target_type, target_id, unwrap_or(limit, 50), unwrap_or(offset, 0)))

\* GET /public/channels/:channel_id/messages: no authentication
public_get_messages_handler(channel_id, limit, offset) ==
    Answer("public", channel_id,
           public_get_messages(channel_id, min(unwrap_or(limit, 50), 100), unwrap_or(offset, 0)))

\* GET /dms/:dm_id/messages
get_dm_messages_handler(username, dm_id, limit, offset) ==
    /\ auth_middleware(username)
    /\ Answer("dms", dm_id,
              get_dm_messages(dm_id, min(unwrap_or(limit, 50), 100), unwrap_or(offset, 0)))

\* The texts sent in the read-back specification: one clean, one the filter flags
ReadContents == { t \in Contents : t.len = 1 /\ ~ t.blank }
\* The limit and offset parameters of a read: absent, or present
Limits  == { << >>, << 1 >>, << 200 >> }
Offsets == { << >>, << 1 >> }

InitRead == InitMsg

NextRead ==
    \/ \E t \in {"channel", "direct_message"}, content \in ReadContents, enforced \in BOOLEAN :
          post_message(t, content, enforced)
    \/ \E u \in {"bob", "eve", "root"}, i \in 1 .. MaxTexts : delete_channel_message(u, "c1", i)
    \/ \E u \in {"bob", "eve", "root"}, i \in 1 .. MaxTexts : delete_dm_message(u, "d1", i)
    \/ \E t \in {"channel", "direct_message"}, i \in {"c1", "d1"}, l \in Limits, o \in Offsets :
          get_messages_handler("eve", t, i, l, o)
    \/ \E l \in Limits, o \in Offsets : public_get_messages_handler("c1", l, o)
    \/ \E l \in Limits, o \in Offsets : get_dm_messages_handler("eve", "d1", l, o)

SpecRead == InitRead /\ [][NextRead]_vars

ReadStep == last'.op = "get_messages"

\* The ids a read answered
Returned(result) == { result[k].id : k \in 1 .. Len(result) }

MaxFails == 2       \* site-ban cascades that fail in one behaviour

\* The handler publishing the event although site_ban_user returned an error
on_cascade_error_publish(target_username) == << UserBanned(target_username) >>

\* `site_ban_user(..).await?` returning Err: nothing is published
on_cascade_error(target_username) == << >>

\* The answer of a ban request that an error has ended
BanError(cause) ==
    /\ last' = [op |-> "ban_user", by |-> req.ban.by, username |-> req.ban.target,
                result |-> "Database", cause |-> cause,
                events |-> on_cascade_error(req.ban.target)]
    /\ bus' = Send(on_cascade_error(req.ban.target))
    /\ req' = [req EXCEPT !.ban = [pc |-> "idle"]]
    /\ hist' = [hist EXCEPT !.failed = @ \cup { req.ban.target },
                            !.fails = @ + 1]

\* INSERT INTO banned_usernames (line 41), with the rows of the log counted.
\* The schema is not part of the sources read here: enforced tells whether the
\* log accepts one row per username only.  A second INSERT of a name is then an
\* error; otherwise it appends a second row for the name.
ban_insert_row(enforced) ==
    /\ req.ban.pc = "insert_ban"
    /\ IF enforced /\ req.ban.target \in banned_usernames
         THEN /\ BanError("constraint")
              /\ UNCHANGED banned_usernames
         ELSE /\ banned_usernames' = banned_usernames \cup { req.ban.target }
              /\ hist' = [hist EXCEPT !.ban_rows[req.ban.target] = @ + 1]
              /\ req' = [req EXCEPT !.ban.pc = "delete_messages"]
              /\ UNCHANGED << bus, last >>
    /\ UNCHANGED << users, servers, server_members, server_bans, channels, direct_messages,
                    messages, files, connections, conn, uuid >>

\* One of the six statements returns an error for a reason outside the store's
\* rows (lines 46, 51, 56, 64, 69, 74)
ban_fail ==
    /\ req.ban.pc \in { "insert_ban", "delete_messages", "delete_members", "delete_dms",
                        "delete_files", "delete_users" }
    /\ BanError("fault")
    /\ UNCHANGED << tables, connections, conn, uuid >>

BanRequesters == { "root", "bob" }
BanTargets    == { "bob", "Bob", "Root", "ghost" }

InitCascade ==
    /\ users = { User(SYSTEM_USERNAME, 0), User("root", 1), User("ann", 0), User("bob", 0) }
    /\ banned_usernames = {}
    /\ servers = { Server(DEFAULT_SERVER_NAME, SYSTEM_USERNAME), Server("dev", "root") }
    /\ server_members = { Member(DEFAULT_SERVER_NAME, u, "member", FALSE) :
                             u \in {"root", "ann", "bob"} }
                        \cup { Member("dev", "root", "admin", FALSE),
                               Member("dev", "bob", "member", FALSE) }
    /\ server_bans = {}
    /\ channels = { Channel("c1", DEFAULT_SERVER_NAME), Channel("c2", "dev") }
    /\ direct_messages = { DirectMessage("d1", "ann", "bob"),
                           DirectMessage("d2", "ann", "root") }
    /\ messages = { Message(1, "c1", NONE, "bob", 0), Message(2, "c1", NONE, "ann", 0) }
    /\ files = { File("f1", SYSTEM_USERNAME) }
    /\ connections = {1}
    /\ conn = [c \in ConnIds |->
                 IF c = 1 THEN [username |-> GUEST_USERNAME, pc |-> "select",
                                send_task |-> "running", recv_task |-> "running",
                                socket |-> "open", rx |-> 0]
                 ELSE IdleConn]
    /\ bus = << >>
    /\ req = IdleReq
    /\ uuid = 2
    /\ last = NoLast
    /\ hist = [site_banned |-> {}, failed |-> {}, fails |-> 0,
               ban_rows |-> [u \in BanTargets |-> 0]]

\* A request is let in while fewer than MaxFails cascades have failed
NextCascade ==
    \/ \E r \in BanRequesters, u \in BanTargets :
          /\ hist.fails < MaxFails
          /\ ban_user_handler(r, u)
    \/ \E enforced \in BOOLEAN : ban_insert_row(enforced)
    \/ ban_delete_messages
    \/ ban_delete_members
    \/ ban_delete_dms
    \/ ban_delete_files
    \/ ban_delete_users
    \/ ban_broadcast
    \/ ban_fail

SpecCascade == InitCascade /\ [][NextCascade]_vars

\* The steps of a ban request as the requester sees them
BanAccepted == req.ban.pc = "idle" /\ req'.ban.pc = "insert_ban"
BanRejected == req.ban.pc = "idle" /\ req'.ban.pc = "idle" /\ last' # last
BanFailed   == req.ban.pc \notin {"idle", "broadcast"} /\ req'.ban.pc = "idle"
BanDone     == req.ban.pc = "broadcast" /\ req'.ban.pc = "idle"

HoldsAdminFlag(username) == \E u \in users : u.username = username /\ u.is_admin # 0

\* Every row that names the user u is gone, and the log names u
Purged(u) ==
    /\ NamedBy(messages, "sender_username", u) = {}
    /\ NamedBy(server_members, "username", u) = {}
    /\ NamedBy(direct_messages, "username1", u) = {}
    /\ NamedBy(direct_messages, "username2", u) = {}
    /\ NamedBy(files, "uploader_username", u) = {}
    /\ NamedBy(users, "username", u) = {}
    /\ u \in banned_usernames

\* C22: a site ban is let past its checks only for a requester that holds the
\* site-admin flag, a target that is not the requester (ignoring case) and a
\* target that names a users row (ignoring case); a ban request that is
\* rejected answers Forbidden, NotFound or BadRequest, leaves every table as
\* it was (no row of the ban log, nothing deleted) and publishes nothing.
C22_SiteBanRejections ==
    /\ [][ BanAccepted =>
              /\ HoldsAdminFlag(req'.ban.by)
              /\ LowerCase(req'.ban.target) # LowerCase(req'.ban.by)
              /\ \E u \in users : LowerCase(u.username) = LowerCase(req'.ban.target) ]_vars
    /\ [][ BanRejected =>
              /\ last'.result \in {"Forbidden", "NotFound", "BadRequest"}
              /\ last'.events = << >>
              /\ tables' = tables
              /\ bus' = bus ]_vars

\* root has asked for the ban of Root, its own name in another case, after a
\* cascade on bob has failed partway: the request is rejected as a self-ban
C22_Witness ==
    /\ last.op = "ban_user"
    /\ last.by = "root"
    /\ last.username = "Root"
    /\ last.result = "BadRequest"
    /\ "bob" \in hist.failed
    /\ req.ban.pc = "idle"

\* C23: the step that ends a successful site ban publishes exactly one
\* UserBanned event for the target, and it is taken only when every statement
\* of the cascade has run: the log names the target and no message,
\* membership, conversation, file or users row of the target is left.  No
\* other step of a ban request publishes anything.  A ban request that a
\* failing statement ends publishes nothing and answers a database error
\* (status 500).
C23_OneEventAfterCascade ==
    /\ [][ BanDone =>
              /\ Purged(req.ban.target)
              /\ last'.result = "Ok"
              /\ last'.events = << UserBanned(req.ban.target) >>
              /\ bus' = Append(bus, UserBanned(req.ban.target)) ]_vars
    /\ [][ bus' # bus => BanDone ]_vars
    /\ [][ BanFailed =>
              /\ last'.result = "Database"
              /\ last'.events = << >>
              /\ bus' = bus ]_vars

\* The ban of bob has succeeded and its one event is on the bus, after an
\* earlier ban request had failed partway and published nothing
C23_Witness ==
    /\ last.op = "ban_user"
    /\ last.result = "Ok"
    /\ bus = << UserBanned(last.username) >>
    /\ hist.fails > 0
    /\ Purged(last.username)

\* C24: a ban request for a target whose earlier cascade failed partway is
\* not ended by an error of a statement that had already run (the only errors
\* are faults from outside the store's rows), and when it succeeds the store
\* is as after one uninterrupted cascade: no row of the target is left and
\* the log holds one row for the target.
C24_RerunCompletesCascade ==
    /\ [][ (BanFailed /\ req.ban.target \in hist.failed) => last'.cause = "fault" ]_vars
    /\ [][ (BanDone /\ req.ban.target \in hist.failed) =>
              /\ Purged(req.ban.target)
              /\ hist.ban_rows[req.ban.target] = 1 ]_vars

(***************************************************************************)
(* Community moderation: community bans, role changes, ownership transfer, *)
(* deletion and re-creation of a community (services/server.rs,            *)
(* services/user_moderation.rs, api/servers.rs).                           *)
(***************************************************************************)
\* The result of transfer_ownership up to its UPDATEs (lines 368-399)
transfer_ownership(server_name, new_owner_username, requester_username) ==
    IF ~ \E s \in servers : s.name = server_name THEN "NotFound"
    ELSE IF (CHOOSE s \in servers : s.name = server_name).creator_username
               # requester_username
           THEN "Unauthorized"
    ELSE IF new_owner_username = requester_username THEN "BadRequest"
    ELSE IF RoleIn(server_name, new_owner_username) = NONE THEN "BadRequest"
    ELSE "Ok"

\* POST /servers/:server_name/transfer-ownership: transfer_ownership (the
\* UPDATE of the creator, the promotion of the new owner, the demotion of the
\* old one), then two ServerMemberRoleUpdated events
transfer_ownership_handler(requester_username, server_name, new_owner) ==
    LET result == transfer_ownership(server_name, new_owner, requester_username)
        events == IF result = "Ok"
                    THEN << ServerMemberRoleUpdated(server_name, new_owner, "admin"),
                            ServerMemberRoleUpdated(server_name, requester_username, "member") >>
                    ELSE << >>
    IN  /\ auth_middleware(requester_username)
        /\ servers' =
              IF result = "Ok"
                THEN { IF s.name = server_name
                         THEN [s EXCEPT !.creator_username = new_owner] ELSE s : s \in servers }
                ELSE servers
        /\ server_members' =
              IF result = "Ok"
                THEN { IF m.server_name = server_name /\ m.username = new_owner
                         THEN [m EXCEPT !.role = "admin"]
                       ELSE IF m.server_name = server_name /\ m.username = requester_username
                         THEN [m EXCEPT !.role = "member"]
                       ELSE m : m \in server_members }
                ELSE server_members
        /\ bus' = Send(events)
        /\ last' = [op |-> "transfer_ownership", by |-> requester_username,
                    server_name |-> server_name, username |-> new_owner,
                    result |-> result, events |-> events]
        /\ UNCHANGED << users, banned_usernames, server_bans, channels, direct_messages,
                        messages, files, connections, conn, req, uuid, hist >>

\* The result of remove_member up to its DELETE (lines 165-208)
remove_member(server_name, username, requester_username) ==
    IF server_name = "RChat" THEN "BadRequest"
    ELSE IF username # requester_username /\ AdminOf(server_name, requester_username) # "Ok"
           THEN "Unauthorized"
    ELSE IF ~ \E s \in servers : s.name = server_name THEN "NotFound"
    ELSE IF (CHOOSE s \in servers : s.name = server_name).creator_username = username
           THEN "BadRequest"
    ELSE "Ok"

\* A call of services::server::remove_member (leave, or removal by an admin).
\* No route of api/servers.rs calls it; the call is modelled as the service
\* function stands.
remove_member_call(requester_username, server_name, username) ==
    LET result == remove_member(server_name, username, requester_username)
    IN  /\ auth_middleware(requester_username)
        /\ server_members' =
              IF result = "Ok"
                THEN { m \in server_members :
                         ~ (m.server_name = server_name /\ m.username = username) }
                ELSE server_members
        /\ last' = [op |-> "remove_member", by |-> requester_username,
                    server_name |-> server_name, username |-> username,
                    result |-> result, events |-> << >>]
        /\ UNCHANGED << users, banned_usernames, servers, server_bans, channels,
                        direct_messages, messages, files, connections, conn, bus, req,
                        uuid, hist >>

(***************************************************************************)
(* The community specification: root holds the site-admin flag and created *)
(* ops, ann created dev; bob is a member of both and has written in dev;   *)
(* eve is a member of RChat only and is banned from ops.                   *)
(***************************************************************************)
ComUsers   == {"root", "ann", "bob", "eve"}
ComServers == {DEFAULT_SERVER_NAME, "dev"}

InitCom ==
    /\ users = { User(SYSTEM_USERNAME, 0), User("root", 1), User("ann", 0),
                 User("bob", 0), User("eve", 0) }
    /\ banned_usernames = {}
    /\ servers = { Server(DEFAULT_SERVER_NAME, SYSTEM_USERNAME), Server("dev", "ann"),
                   Server("ops", "root") }
    /\ server_members = { Member(DEFAULT_SERVER_NAME, u, "member", FALSE) : u \in ComUsers }
                        \cup { Member("dev", "ann", "admin", FALSE),
                               Member("dev", "bob", "member", FALSE),
                               Member("ops", "root", "admin", FALSE),
                               Member("ops", "bob", "member", FALSE) }
    /\ server_bans = { Ban("ops", "eve") }
    /\ channels = { Channel("c1", DEFAULT_SERVER_NAME), Channel("c2", "dev"),
                    Channel("c3", "ops") }
    /\ direct_messages = {}
    /\ messages = { Message(1, "c2", NONE, "bob", 0) }
    /\ files = {}
    /\ connections = {}
    /\ conn = [c \in ConnIds |-> IdleConn]
    /\ bus = << >>
    /\ req = IdleReq
    /\ uuid = 0
    /\ last = NoLast
    /\ hist = InitHist

NextCom ==
    \/ \E r \in {"root", "ann", "bob"}, s \in ComServers, u \in {"ann", "bob", "eve"} :
          remove_server_member(r, s, u)
    \/ \E r \in {"ann", "bob"}, s \in ComServers, u \in {"ann", "bob"} :
          remove_member_call(r, s, u)
    \/ \E r \in {"ann", "bob"}, u \in {"ann", "bob"}, role \in {"member", "admin"} :
          update_member(r, "dev", u, role)
    \/ \E r \in {"ann", "bob"}, u \in {"ann", "bob", "eve"} :
          transfer_ownership_handler(r, "dev", u)
    \/ \E u \in {"bob", "eve"} : join(u, "dev")
    \/ \E r \in {"ann", "bob"}, s \in ComServers : delete_server_handler(r, s)
    \/ \E r \in {"ann", "bob"} : create(r, "dev")

SpecCom == InitCom /\ [][NextCom]_vars

\* The step answers a community ban (DELETE /servers/:server_name/members/:username)
BanStep == last'.op = "remove_server_member"

Privileged ==
    \/ HoldsAdminFlag(last'.by)
    \/ \E m \in server_members : /\ m.server_name = last'.server_name
                                 /\ m.username = last'.by
                                 /\ m.role = "admin"

\* The target of the step is on the ban list of the community named
AlreadyBanned == Ban(last'.server_name, last'.username) \in server_bans

\* C26: a community ban succeeds only for a requester that holds the
\* site-admin flag or the role admin in the community, and only for a target
\* that is not on the ban list of the community; a ban asked by another
\* requester, or for a target already on the list, is rejected and leaves the
\* ban list and all membership rows as they were.
C26_BanNeedsAdminAndNoDuplicate ==
    /\ [][ (BanStep /\ last'.result = "Ok") => (Privileged /\ ~ AlreadyBanned) ]_vars
    /\ [][ (BanStep /\ (~ Privileged \/ AlreadyBanned)) =>
              /\ last'.result \in {"BadRequest", "NotFound", "Unauthorized"}
              /\ server_bans' = server_bans
              /\ server_members' = server_members ]_vars

\* ann, admin of dev, has asked for the ban of eve from dev a second time: the
\* request is rejected as a duplicate and the ban list keeps its one row
C26_Witness ==
    /\ last.op = "remove_server_member"
    /\ last.by = "ann"
    /\ last.server_name = "dev"
    /\ last.username = "eve"
    /\ last.result = "BadRequest"
    /\ RoleIn("dev", "ann") = "admin"
    /\ Ban("dev", "eve") \in server_bans

\* C27: a successful community ban of t from c adds the ban row (c, t) and
\* nothing else to the ban lists, removes the membership row of t in c and no
\* other membership row, and leaves the messages and every other table as
\* they were.
C27_BanTouchesOneBanRowOneMembership ==
    [][ (BanStep /\ last'.result = "Ok") =>
           /\ Ban(last'.server_name, last'.username) \notin server_bans
           /\ server_bans' = server_bans \cup { Ban(last'.server_name, last'.username) }
           /\ server_members' =
                 server_members \ { m \in server_members :
                                      /\ m.server_name = last'.server_name
                                      /\ m.username = last'.username }
           /\ UNCHANGED << users, banned_usernames, servers, channels, direct_messages,
                           messages, files >> ]_vars

\* bob has been banned from dev: bob's message in dev, bob's memberships of
\* ops and of RChat, the ban of eve from ops and ann's membership of dev remain
C27_Witness ==
    /\ last.op = "remove_server_member"
    /\ last.result = "Ok"
    /\ last.server_name = "dev"
    /\ last.username = "bob"
    /\ RoleIn("dev", "bob") = NONE
    /\ RoleIn("ops", "bob") = "member"
    /\ RoleIn(DEFAULT_SERVER_NAME, "bob") = "member"
    /\ RoleIn("dev", "ann") = "admin"
    /\ Ban("ops", "eve") \in server_bans
    /\ Message(1, "c2", NONE, "bob", 0) \in messages

\* The step answers a request that takes members out of a community: a
\* community ban (the member-removal endpoint), a call of remove_member
\* (leave, removal by an admin), or the deletion of a community
LeaveStep == last'.op \in {"remove_server_member", "remove_member", "delete_server"}

\* C29: a community ban, a leave or removal and a deletion that name the
\* default community are rejected with BadRequest and change no table; and
\* no such request, whatever community it names, removes a membership row of
\* the default community or the default community itself.
C29_DefaultCommunityNeverLeft ==
    /\ [][ (LeaveStep /\ last'.server_name = DEFAULT_SERVER_NAME) =>
              /\ last'.result = "BadRequest"
              /\ tables' = tables ]_vars
    /\ [][ LeaveStep =>
              /\ \A m \in server_members :
                    m.server_name = DEFAULT_SERVER_NAME => m \in server_members'
              /\ \A s \in servers : s.name = DEFAULT_SERVER_NAME => s \in servers' ]_vars

\* root has asked for the ban of bob from the default community after dev was
\* deleted: the request is rejected and every user is still a member of RChat
C29_Witness ==
    /\ last.op = "remove_server_member"
    /\ last.by = "root"
    /\ last.server_name = DEFAULT_SERVER_NAME
    /\ last.username = "bob"
    /\ last.result = "BadRequest"
    /\ ~ \E s \in servers : s.name = "dev"
    /\ \A u \in ComUsers : RoleIn(DEFAULT_SERVER_NAME, u) = "member"

(***************************************************************************)
(* The creator specification: the requests that name the creator of dev or *)
(* the member bob (community bans, removals, role updates, ownership       *)
(* transfers), and root asking for the site ban of ann or of bob.          *)
(***************************************************************************)
NextOwner ==
    \/ \E r \in {"root", "bob"}, u \in {"ann", "bob"} : remove_server_member(r, "dev", u)
    \/ \E r \in {"ann", "bob"}, u \in {"ann", "bob"} : remove_member_call(r, "dev", u)
    \/ \E r \in {"ann", "bob"}, u \in {"ann", "bob"}, role \in {"member", "admin"} :
          update_member(r, "dev", u, role)
    \/ \E r \in {"ann", "bob"}, u \in {"ann", "bob"} : transfer_ownership_handler(r, "dev", u)
    \/ \E u \in {"ann", "bob"} : ban_user_handler("root", u)
    \/ ban_cascade

SpecOwner == InitCom /\ [][NextOwner]_vars

\* C28: as long as a community exists and its creator is not changed by an
\* ownership transfer, no step removes the membership row of the creator in
\* that community or changes the role of that row: not a role update, not a
\* member removal, not a community ban and not a site ban.
C28_CreatorMembershipKept ==
    [][ \A s \in servers : \A m \in server_members :
           ( /\ s \in servers'
             /\ m.server_name = s.name
             /\ m.username = s.creator_username )
           => \E n \in server_members' :
                 /\ n.server_name = m.server_name
                 /\ n.username = m.username
                 /\ n.role = m.role ]_vars

\* No delete request is between its read and its last UPDATE
Quiescent == \A r \in ChanReqs : req[r].pc \in {"idle", "done"}

\* C30: when every channel-create and channel-delete request has completed,
\* the stored channel_count of each community equals the number of its
\* active channels (no recount by sync_server_counts is run in between).
C30_ChannelCountMatchesActiveChannels ==
    Quiescent => \A s \in servers : s.channel_count = ActiveCount(s.name)

(***************************************************************************)
(* The counters of a community and their recompute (services/server.rs,    *)
(* sync_server_counts; services/channel.rs).  channel_count is written by  *)
(* create_channel and delete_channel, each a row write followed by a       *)
(* separate UPDATE of the counter.  member_count is written by no          *)
(* statement of the sources: "Trigger handles member_count update"         *)
(* (server.rs:118, 216), and the triggers belong to the schema, which is   *)
(* not part of the sources.  hist.trigger tells whether the store was      *)
(* created with the trigger; both stores are explored.                     *)
(* sync_server_counts is two UPDATE statements on the pool.  Slot 0 of req *)
(* is the position of the recompute; the slots of ChanReqs serve one       *)
(* channel request each.                                                   *)
(***************************************************************************)
SyncSlot == 0

\* Server::new plus the member_count column (models/server.rs, line 11)
Counted(server, member_count) ==
    [name |-> server.name, creator_username |-> server.creator_username,
     channel_count |-> server.channel_count, member_count |-> member_count]

\* SELECT COUNT(*) FROM server_members WHERE server_members.server_name = servers.name
MemberCount(server_name) ==
    Cardinality({ m \in server_members : m.server_name = server_name })

\* The trigger on server_members: member_count follows the INSERT or DELETE
member_count_trigger(server_name, d) ==
    IF hist.trigger
      THEN { IF s.name = server_name THEN [s EXCEPT !.member_count = @ + d] ELSE s :
             s \in servers }
      ELSE servers

\* The second UPDATE of sync_server_counts counting the inactive channels too
sync_channel_count_all ==
    { [s EXCEPT !.channel_count =
          Cardinality({ c \in channels : c.server_name = s.name })] : s \in servers }

\* UPDATE servers SET member_count = (SELECT COUNT(*) FROM server_members ...)
sync_member_count ==
    { [s EXCEPT !.member_count = MemberCount(s.name)] : s \in servers }

\* UPDATE servers SET channel_count = (SELECT COUNT(*) FROM channels
\*   WHERE channels.server_name = servers.name AND channels.is_active = 1)
sync_channel_count ==
    { [s EXCEPT !.channel_count = ActiveCount(s.name)] : s \in servers }

\* sync_server_counts, its first statement
sync_members ==
    /\ req[SyncSlot].pc = "idle"
    /\ servers' = sync_member_count
    /\ req' = [req EXCEPT ![SyncSlot].pc = "channels"]
    /\ last' = [op |-> "sync_server_counts", statement |-> 1, alone |-> TRUE,
                changed |-> servers' # servers, result |-> NONE]
    /\ UNCHANGED << users, banned_usernames, server_members, server_bans, channels,
                    direct_messages, messages, files, connections, conn, bus, uuid, hist >>

\* sync_server_counts, its second statement and its return; alone tells that
\* no statement of another call ran between the two
sync_channels ==
    /\ req[SyncSlot].pc = "channels"
    /\ servers' = sync_channel_count
    /\ req' = [req EXCEPT ![SyncSlot].pc = "idle"]
    /\ last' = [op |-> "sync_server_counts", statement |-> 2,
                alone |-> (last.op = "sync_server_counts" /\ last.statement = 1),
                changed |-> (servers' # servers \/ (last.op = "sync_server_counts" /\ last.changed)),
                result |-> "Ok"]
    /\ UNCHANGED << users, banned_usernames, server_members, server_bans, channels,
                    direct_messages, messages, files, connections, conn, bus, uuid, hist >>

\* POST /servers/join on a store with or without the trigger
join_counted(username, server_name) ==
    LET result == join_server(server_name, username)
        name   == (CHOOSE s \in servers : LowerCase(s.name) = LowerCase(server_name)).name
        ok     == result \in {"Ok", "Member"}
        events == IF ok THEN << ServerMemberJoined(name, username), ServerStatsUpdated(name) >>
                  ELSE << >>
    IN  /\ auth_middleware(username)
        /\ server_members' =
              IF result = "Ok"
                THEN server_members \cup
                       { Member(name, username, "member", OnlineElsewhere(username)) }
                ELSE server_members
        /\ servers' = IF result = "Ok" THEN member_count_trigger(name, 1) ELSE servers
        /\ bus' = Send(events)
        /\ last' = [op |-> "join", by |-> username, server_name |-> server_name,
                    result |-> IF ok THEN "Ok" ELSE result, events |-> events]
        /\ UNCHANGED << users, banned_usernames, server_bans, channels, direct_messages,
                        messages, files, connections, conn, req, uuid, hist >>

\* services::server::remove_member (leave) on a store with or without the trigger
remove_member_counted(requester_username, server_name, username) ==
    LET result == remove_member(server_name, username, requester_username)
        found  == RoleIn(server_name, username) # NONE
    IN  /\ auth_middleware(requester_username)
        /\ server_members' =
              IF result = "Ok"
                THEN { m \in server_members :
                         ~ (m.server_name = server_name /\ m.username = username) }
                ELSE server_members
        /\ servers' = IF result = "Ok" /\ found
                        THEN member_count_trigger(server_name, -1) ELSE servers
        /\ last' = [op |-> "remove_member", by |-> requester_username,
                    server_name |-> server_name, username |-> username,
                    result |-> result, events |-> << >>]
        /\ UNCHANGED << users, banned_usernames, server_bans, channels, direct_messages,
                        messages, files, connections, conn, bus, req, uuid, hist >>

\* create_channel, the INSERT of the channel row (lines 24-36)
create_channel_insert(r, server_name) ==
    /\ req[r].pc = "idle"
    /\ uuid < MaxIds
    /\ channels' = channels \cup { Channel(new_v4(uuid + 1), server_name) }
    /\ uuid' = uuid + 1
    /\ req' = [req EXCEPT ![r] = [pc |-> "bump", server_name |-> server_name,
                                  channel_id |-> new_v4(uuid + 1)]]
    /\ last' = NoLast
    /\ UNCHANGED << users, banned_usernames, servers, server_members, server_bans,
                    direct_messages, messages, files, connections, conn, bus, hist >>

\* create_channel, UPDATE servers SET channel_count = channel_count + 1 (lines
\* 38-41); then the endpoint broadcasts
create_channel_count(r) ==
    LET events == << ChannelCreated(req[r].server_name, req[r].channel_id),
                     ServerStatsUpdated(req[r].server_name) >>
    IN  /\ req[r].pc = "bump"
        /\ servers' = BumpCount(req[r].server_name, 1)
        /\ bus' = Send(events)
        /\ last' = [op |-> "create_channel", server_name |-> req[r].server_name,
                    channel_id |-> req[r].channel_id, count |-> 0,
                    result |-> "Ok", events |-> events]
        /\ req' = [req EXCEPT ![r] = [pc |-> "done"]]
        /\ UNCHANGED << users, banned_usernames, server_members, server_bans, channels,
                        direct_messages, messages, files, connections, conn, uuid, hist >>

\* RChat with c1, dev (created by root) with c2 and c3; bob and eve are
\* registered, bob is a member of dev; the counters are exact
InitSync ==
    /\ users = { User(SYSTEM_USERNAME, 0), User("root", 1), User("bob", 0), User("eve", 0) }
    /\ banned_usernames = {}
    /\ servers = { Counted(Server(DEFAULT_SERVER_NAME, SYSTEM_USERNAME), 3),
                   Counted([Server("dev", "root") EXCEPT !.channel_count = 2], 2) }
    /\ server_members = { Member(DEFAULT_SERVER_NAME, "root", "member", FALSE),
                          Member(DEFAULT_SERVER_NAME, "bob", "member", FALSE),
                          Member(DEFAULT_SERVER_NAME, "eve", "member", FALSE),
                          Member("dev", "root", "admin", FALSE),
                          Member("dev", "bob", "member", FALSE) }
    /\ server_bans = {}
    /\ channels = { Channel("c1", DEFAULT_SERVER_NAME), Channel("c2", "dev"),
                    Channel("c3", "dev") }
    /\ direct_messages = {}
    /\ messages = {}
    /\ files = {}
    /\ connections = {}
    /\ conn = [c \in ConnIds |-> IdleConn]
    /\ bus = << >>
    /\ req = [r \in {SyncSlot} \cup ChanReqs |-> [pc |-> "idle"]]
    /\ uuid = 0
    /\ last = NoLast
    /\ \E t \in BOOLEAN : hist = [trigger |-> t]

NextSync ==
    \/ sync_members
    \/ sync_channels
    \/ \E u \in {"bob", "eve"} : join_counted(u, "dev")
    \/ \E u \in {"bob", "eve"} : remove_member_counted(u, "dev", u)
    \/ \E r \in ChanReqs : create_channel_insert(r, "dev")
    \/ \E r \in ChanReqs : create_channel_count(r)
    \/ \E r \in ChanReqs, c \in {"c2", "c3"} : remove_read(r, "dev", c)
    \/ \E r \in ChanReqs : remove_update(r)
    \/ \E r \in ChanReqs : remove_count(r)

SpecSync == InitSync /\ [][NextSync]_vars

SyncStep == last'.op = "sync_server_counts"

Exact ==
    \A s \in servers : /\ s.member_count = MemberCount(s.name)
                       /\ s.channel_count = ActiveCount(s.name)

\* C31: a recompute that ran with no other operation in flight and none in
\* between its statements leaves every community with member_count equal to
\* its number of membership rows and channel_count equal to its number of
\* active channels; a statement of the recompute run on exact counters
\* changes nothing.
C31_RecomputeYieldsEnumeration ==
    /\ [][ (SyncStep /\ last'.statement = 2 /\ last'.alone /\ Quiescent)
             => Exact' ]_vars
    /\ [][ (SyncStep /\ Exact) => servers' = servers ]_vars

\* A recompute ran alone after joins, leaves and channel deletes and repaired
\* a counter
C31_Witness ==
    /\ last.op = "sync_server_counts"
    /\ last.statement = 2
    /\ last.alone
    /\ last.changed
    /\ Quiescent
    /\ Exact
    /\ \E c \in channels : c.is_active = 0
    /\ RoleIn("dev", "eve") # NONE

AllQuiet == Quiescent /\ req[SyncSlot].pc = "idle"

AppOk == [error |-> "Ok", message |-> ""]
AppError(error, message) == [error |-> error, message |-> message]

\* check_site_admin: SELECT is_admin FROM users WHERE username = ?, compared
\* with 1 (the caller has passed the auth middleware, so the row exists)
check_site_admin(username) ==
    (CHOOSE u \in users : u.username = username).is_admin = 1

\* SELECT COUNT(*) FROM server_members
\*   WHERE server_name = ? AND username = ? AND role = 'admin'
check_server_admin(username, server_name) ==
    Cardinality({ m \in server_members : /\ m.server_name = server_name
                                         /\ m.username = username
                                         /\ m.role = "admin" }) > 0

\* SELECT COUNT(*) FROM server_members sm JOIN channels c
\*   ON sm.server_name = c.server_name
\*   WHERE c.id = ? AND sm.username = ? AND sm.role = 'admin'
check_channel_admin(username, channel_id) ==
    Cardinality({ << m, c >> \in server_members \X channels :
                     /\ m.server_name = c.server_name
                     /\ c.id = channel_id
                     /\ m.username = username
                     /\ m.role = "admin" }) > 0

\* require_admin (lines 52-88)
require_admin(username, server_name, channel_id) ==
    IF check_site_admin(username) THEN AppOk
    ELSE IF server_name # NONE
           THEN IF ~ check_server_admin(username, server_name)
                  THEN AppError("Unauthorized", "Server admin privileges required")
                  ELSE AppOk
    ELSE IF channel_id # NONE
           THEN IF ~ check_channel_admin(username, channel_id)
                  THEN AppError("Unauthorized", "Channel admin privileges required")
                  ELSE AppOk
    ELSE AppError("Unauthorized", "Site admin privileges required")

\* A call of require_admin by a request that has passed the auth middleware
require_admin_call(username, server_name, channel_id) ==
    /\ auth_middleware(username)
    /\ last' = [op |-> "require_admin", username |-> username,
                server_name |-> server_name, channel_id |-> channel_id,
                result |-> require_admin(username, server_name, channel_id)]
    /\ UNCHANGED << tables, connections, conn, bus, req, uuid, hist >>

\* The admin specification: the communities of InitCom, role updates, joins,
\* community bans, and calls of the resolver for every scope.
NextAdmin ==
    \/ \E u \in ComUsers, s \in {NONE, "dev", "ops"}, c \in {NONE, "c2", "c3"} :
          require_admin_call(u, s, c)
    \/ \E r \in {"root", "ann"}, u \in {"bob", "eve"}, n \in {"member", "admin"} :
          update_member(r, "dev", u, n)
    \/ \E u \in {"bob", "eve"} : join(u, "dev")
    \/ \E u \in {"bob", "eve"} : remove_server_member("ann", "dev", u)

SpecAdmin == InitCom /\ [][NextAdmin]_vars

ResolveStep == last'.op = "require_admin"

\* The community a call of the resolver names, or the one owning its channel
ScopeOf(server_name, channel_id) ==
    IF server_name # NONE THEN server_name
    ELSE IF \E c \in channels : c.id = channel_id
           THEN (CHOOSE c \in channels : c.id = channel_id).server_name
    ELSE NONE

\* C33: the resolver accepts a site admin for every scope; otherwise it accepts
\* exactly the members of the scope's community whose role is admin; and the
\* error it returns to a caller with no membership in that community differs
\* from the error it returns to a member who lacks the admin role.
C33_ResolverTellsNonMemberFromNonAdmin ==
    [][ ResolveStep =>
          LET u == last'.username
              s == ScopeOf(last'.server_name, last'.channel_id)
          IN  /\ is_site_admin(u) => last'.result = AppOk
              /\ (~ is_site_admin(u) /\ s # NONE)
                   => (last'.result = AppOk <=> RoleIn(s, u) = "admin")
              /\ (~ is_site_admin(u) /\ s # NONE /\ RoleIn(s, u) = NONE)
                   => \A v \in ComUsers :
                         (~ is_site_admin(v) /\ RoleIn(s, v) = "member")
                           => last'.result #
                                require_admin(v, last'.server_name, last'.channel_id)
      ]_vars

(***************************************************************************)
(* Conversations: POST /dms (api/direct_messages.rs, create_or_get_dm) and *)
(* services/direct_message.rs, get_or_create_dm: a read of the users       *)
(* table, a read of the conversation of the ordered pair, and an INSERT,   *)
(* three statements on the pool with no transaction around them.  The      *)
(* slots of req serve one request each.  The schema is not part of the     *)
(* sources: enforced tells whether the store refuses a second row for an   *)
(* ordered pair; both stores are explored.                                 *)
(***************************************************************************)
DmReqs == 1..MaxReqs

\* SELECT * FROM direct_messages WHERE username1 = ? AND username2 = ?
\* (fetch_optional: one of the rows that match)
existing(p) == { d \in direct_messages : d.username1 = p[1] /\ d.username2 = p[2] }

DmAnswer(r, by, other, result, id) ==
    LET events == IF result = "Ok" THEN << DmCreated(id, by, other) >> ELSE << >>
    IN  /\ bus' = Send(events)
        /\ last' = [op |-> "create_or_get_dm", by |-> by, other |-> other,
                    result |-> result, id |-> id, events |-> events]
        /\ req' = [req EXCEPT ![r] = [pc |-> "done"]]

\* lines 11-19: the other user must have a users row
dm_user_exists(r, username, other_username) ==
    /\ req[r].pc = "idle"
    /\ auth_middleware(username)
    /\ IF \E u \in users : u.username = other_username
         THEN /\ req' = [req EXCEPT ![r] = [pc |-> "select", by |-> username,
                                            other |-> other_username]]
              /\ last' = NoLast
              /\ bus' = bus
         ELSE DmAnswer(r, username, other_username, "NotFound", NONE)
    /\ UNCHANGED << tables, connections, conn, uuid, hist >>

\* lines 21-36: the read of the conversation of the ordered pair
dm_select(r) ==
    LET p == SortedPair(req[r].by, req[r].other)
    IN  /\ req[r].pc = "select"
        /\ IF existing(p) # {}
             THEN \E dm \in existing(p) : DmAnswer(r, req[r].by, req[r].other, "Ok", dm.id)
             ELSE /\ req' = [req EXCEPT ![r].pc = "insert"]
                  /\ last' = NoLast
                  /\ bus' = bus
        /\ UNCHANGED << tables, connections, conn, uuid, hist >>

\* lines 38-53: DirectMessage::new and the INSERT; then the endpoint broadcasts
dm_insert(r, enforced) ==
    LET p  == SortedPair(req[r].by, req[r].other)
        dm == DirectMessage(new_v4(uuid + 1), p[1], p[2])
    IN  /\ req[r].pc = "insert"
        /\ uuid' = uuid + 1
        /\ IF enforced /\ existing(p) # {}
             THEN /\ direct_messages' = direct_messages
                  /\ DmAnswer(r, req[r].by, req[r].other, "Database", NONE)
             ELSE /\ direct_messages' = direct_messages \cup { dm }
                  /\ DmAnswer(r, req[r].by, req[r].other, "Ok", dm.id)
        /\ UNCHANGED << users, banned_usernames, servers, server_members, server_bans,
                        channels, messages, files, connections, conn, hist >>

\* ann, bob and eve are registered; no conversation exists
InitDm ==
    /\ users = { User(SYSTEM_USERNAME, 0), User("ann", 0), User("bob", 0), User("eve", 0) }
    /\ banned_usernames = {}
    /\ servers = { Server(DEFAULT_SERVER_NAME, SYSTEM_USERNAME) }
    /\ server_members = { Member(DEFAULT_SERVER_NAME, u, "member", FALSE) :
                          u \in {"ann", "bob", "eve"} }
    /\ server_bans = {}
    /\ channels = { Channel("c1", DEFAULT_SERVER_NAME) }
    /\ direct_messages = {}
    /\ messages = {}
    /\ files = {}
    /\ connections = {}
    /\ conn = [c \in ConnIds |-> IdleConn]
    /\ bus = << >>
    /\ req = [r \in DmReqs |-> [pc |-> "idle"]]
    /\ uuid = 0
    /\ last = NoLast
    /\ hist = InitHist

NextDm ==
    \/ \E r \in DmReqs, u \in {"ann", "bob"}, o \in {"ann", "bob", "eve", "ghost"} :
          dm_user_exists(r, u, o)
    \/ \E r \in DmReqs : dm_select(r)
    \/ \E r \in DmReqs, enforced \in BOOLEAN : dm_insert(r, enforced)

SpecDm == InitDm /\ [][NextDm]_vars

DmStep == last'.op = "create_or_get_dm"

\* The conversation rows of the two names, in either order
RowsOfPair(rows, a, b) ==
    { d \in rows : { d.username1, d.username2 } = { a, b } }

\* C34: a request for (a, b) or (b, a) with b registered is answered with the
\* conversation row of the pair, the one row both orders resolve to; in every
\* state at most one row exists per unordered pair of usernames, and it has
\* the smaller username first.
C34_OneConversationPerPair ==
    /\ [][ (DmStep /\ \E u \in users : u.username = last'.other)
             => /\ last'.result = "Ok"
                /\ \E d \in direct_messages' :
                      /\ d.id = last'.id
                      /\ RowsOfPair(direct_messages', last'.by, last'.other) = { d } ]_vars
    /\ [] \A d \in direct_messages :
             /\ Rank(d.username1) <= Rank(d.username2)
             /\ RowsOfPair(direct_messages, d.username1, d.username2) = { d }

(***************************************************************************)
(* Registrations that run at the same time (services/auth.rs,              *)
(* register_user).  The reads of register_user (validate_username, the     *)
(* count of users, the SELECT ... WHERE LOWER(username) = LOWER(?)) and    *)
(* its INSERT are separate statements on the pool, with no transaction     *)
(* around them; the slots of req serve one request each.  The users table  *)
(* is keyed by username.  The schema is not part of the sources: enforced  *)
(* tells whether the key is compared ignoring case; both stores are        *)
(* explored.                                                               *)
(***************************************************************************)
RegReqs == 1..MaxReqs

\* register_user, lines 90-106: the reads
register_read(r, username) ==
    LET result   == register_user(username)
        is_first == ~ \E u \in users : u.username # SYSTEM_USERNAME
    IN  /\ req[r].pc = "idle"
        /\ IF result = "Ok"
             THEN /\ req' = [req EXCEPT ![r] = [pc |-> "insert", username |-> username,
                                                is_first_user |-> is_first]]
                  /\ last' = NoLast
             ELSE /\ req' = [req EXCEPT ![r] = [pc |-> "done"]]
                  /\ last' = [op |-> "register", by |-> username, username |-> username,
                              result |-> result, events |-> << >>]
        /\ UNCHANGED << tables, connections, conn, bus, uuid, hist >>

\* The key of the users table refuses the row
users_key_conflict(username, enforced) ==
    \E u \in users : \/ u.username = username
                     \/ enforced /\ LowerCase(u.username) = LowerCase(username)

\* register_user, lines 141-183: the INSERT of the users row, join_server for
\* RChat and the conversation of the user with itself; then the endpoint
\* broadcasts
register_insert(r, enforced) ==
    LET username == req[r].username
        joined   == join_server(DEFAULT_SERVER_NAME, username)
        refused  == users_key_conflict(username, enforced)
        answer   == IF refused THEN "Database"
                    ELSE IF joined \in {"Ok", "Member"} THEN "Ok" ELSE joined
        self_dm  == \E d \in direct_messages : d.username1 = username /\ d.username2 = username
        events   == IF answer = "Ok"
                      THEN << ServerMemberJoined(DEFAULT_SERVER_NAME, username),
                              ServerStatsUpdated(DEFAULT_SERVER_NAME) >>
                      ELSE << >>
    IN  /\ req[r].pc = "insert"
        /\ users' = IF refused THEN users
                    ELSE users \cup { User(username, IF req[r].is_first_user THEN 1 ELSE 0) }
        /\ server_members' =
              IF ~ refused /\ joined = "Ok"
                THEN server_members \cup
                       { Member(DEFAULT_SERVER_NAME, username, "member",
                                OnlineElsewhere(username)) }
                ELSE server_members
        /\ IF answer = "Ok" /\ ~ self_dm
             THEN /\ direct_messages' = direct_messages \cup
                        { DirectMessage(new_v4(uuid + 1), username, username) }
                  /\ uuid' = uuid + 1
             ELSE UNCHANGED << direct_messages, uuid >>
        /\ bus' = Send(events)
        /\ last' = [op |-> "register", by |-> username, username |-> username,
                    result |-> answer, events |-> events]
        /\ req' = [req EXCEPT ![r] = [pc |-> "done"]]
        /\ UNCHANGED << banned_usernames, servers, server_bans, channels, messages, files,
                        connections, conn, hist >>

\* root is registered; ghost was site banned
InitRace ==
    /\ users = { User(SYSTEM_USERNAME, 0), User("root", 1) }
    /\ banned_usernames = { "ghost" }
    /\ servers = { Server(DEFAULT_SERVER_NAME, SYSTEM_USERNAME) }
    /\ server_members = { Member(DEFAULT_SERVER_NAME, "root", "member", FALSE) }
    /\ server_bans = {}
    /\ channels = { Channel("c1", DEFAULT_SERVER_NAME) }
    /\ direct_messages = { DirectMessage("d0", "root", "root") }
    /\ messages = {}
    /\ files = {}
    /\ connections = {}
    /\ conn = [c \in ConnIds |-> IdleConn]
    /\ bus = << >>
    /\ req = [r \in RegReqs |-> [pc |-> "idle"]]
    /\ uuid = 0
    /\ last = NoLast
    /\ hist = InitHist

NextRace ==
    \/ \E r \in RegReqs, u \in {"bob", "Bob", "Root", "ann", "eve", "ghost"} :
          register_read(r, u)
    \/ \E r \in RegReqs, enforced \in BOOLEAN : register_insert(r, enforced)

SpecRace == InitRace /\ [][NextRace]_vars

\* C35: in every reachable state no two users rows have usernames that are
\* equal ignoring case.
C35_UsernamesUniqueIgnoringCase ==
    \A u1, u2 \in users :
        LowerCase(u1.username) = LowerCase(u2.username) => u1 = u2

(***************************************************************************)
(* The names of communities: creations under names that differ in case,    *)
(* with the joins, role updates and deletions of the communities.          *)
(***************************************************************************)
NextCreate ==
    \/ \E r \in {"ann", "bob", "eve"}, n \in {"dev", "Dev", "new"} : create(r, n)
    \/ \E u \in {"bob", "eve"} : join(u, "dev")
    \/ \E role \in {"member", "admin"} : update_member("ann", "dev", "bob", role)
    \/ \E r \in {"ann", "bob"}, s \in {"dev", "Dev"} : delete_server_handler(r, s)

SpecCreate == InitCom /\ [][NextCreate]_vars

CreateStep == last'.op = "create"

\* C36: a create_server call whose name equals the name of an existing
\* community ignoring case is rejected and leaves the servers, the
\* server_members and the channels as they were.
C36_CaseCollisionRejected ==
    [][ (CreateStep /\ \E s \in servers : LowerCase(s.name) = LowerCase(last'.server_name))
          => /\ last'.result # "Ok"
             /\ servers' = servers
             /\ server_members' = server_members
             /\ channels' = channels ]_vars

(***************************************************************************)
(* Heartbeats.  recv_task answers a heartbeat frame by sending Pong on     *)
(* broadcast_tx, the sender of the bus every connection subscribes to      *)
(* (connection.rs:96, 125, 135).                                           *)
(***************************************************************************)
\* The event at the end of the bus is waiting in the subscription of d
Queued(d) ==
    /\ conn[d].send_task = "running"
    /\ conn[d].rx < Len(bus)

\* C37: a heartbeat received on connection c puts exactly one Pong on the way
\* to c and to no other connection; it changes no row (no online flag) and
\* publishes no presence event.
C37_HeartbeatAnsweredToSenderOnly ==
    [][ \A c \in ConnIds :
          recv_task_heartbeat(c)
            => /\ bus' = bus \o << Pong >>
               /\ Queued(c)'
               /\ \A d \in ConnIds \ {c} : ~ Queued(d)'
               /\ server_members' = server_members ]_vars

(***************************************************************************)
(* Login (services/auth.rs, login_user; POST /auth/login).  The throttle   *)
(* reads the login_attempts table and the clock.  In this specification    *)
(* req holds both: req.now is Utc::now() in seconds, req.login_attempts    *)
(* the rows [username, timestamp] of the table; the users rows carry       *)
(* login_attempts, account_locked and lock_until.  hist.attempted[u] is    *)
(* the time of the latest login request for the identity u, whatever its   *)
(* answer.                                                                 *)
(***************************************************************************)
MaxTime == 3            \* seconds the clock runs in one behaviour
LOCK_AFTER == 1000
THROTTLE_SECONDS == 3
LOCK_SECONDS == 86400

\* models/user.rs: User with the columns login_user reads and writes
\* (lock_until is an Option: the empty set, or the set of its one value)
Account(username, login_attempts, account_locked, lock_until) ==
    [username |-> username, is_admin |-> 0, login_attempts |-> login_attempts,
     account_locked |-> account_locked, lock_until |-> lock_until]

\* User::is_locked
is_locked(user) ==
    IF user.account_locked = 0 THEN FALSE
    ELSE \E lock_time \in user.lock_until : req.now < lock_time

\* SELECT timestamp FROM login_attempts WHERE username = ?
\*   ORDER BY timestamp DESC LIMIT 1
last_attempt(username) ==
    { a \in req.login_attempts :
        /\ a.username = username
        /\ \A b \in req.login_attempts : b.username = username => b.timestamp <= a.timestamp }

\* login_user, lines 191-206: the throttle
rate_limited(username) ==
    \E a \in last_attempt(username) : req.now - a.timestamp < THROTTLE_SECONDS

\* save_login_attempt: LoginAttempt::new stamps the row with Utc::now()
save_login_attempt(username) ==
    req.login_attempts \cup { [username |-> username, timestamp |-> req.now] }

\* POST /auth/login: login_user; valid tells whether the credential sent is
\* the one of the user
login(username, valid) ==
    LET found  == NamedBy(users, "username", username)
        user   == CHOOSE u \in found : TRUE
        new_attempts == user.login_attempts + 1
        result == IF rate_limited(username) THEN "RateLimitExceeded"
                  ELSE IF found = {} THEN "Auth"
                  ELSE IF is_locked(user) THEN "Auth"
                  ELSE IF ~ valid THEN "Auth"
                  ELSE "Ok"
        saved  == /\ ~ rate_limited(username)
                  /\ found = {} \/ ~ is_locked(user)
        updated == IF ~ valid
                     THEN [user EXCEPT
                             !.login_attempts = new_attempts,
                             !.account_locked = IF new_attempts >= LOCK_AFTER THEN 1 ELSE 0,
                             !.lock_until = IF new_attempts >= LOCK_AFTER
                                              THEN { req.now + LOCK_SECONDS } ELSE {}]
                     ELSE [user EXCEPT !.login_attempts = 0, !.account_locked = 0,
                                       !.lock_until = {}]
    IN  /\ users' = IF saved /\ found # {}
                      THEN (users \ { user }) \cup { updated }
                      ELSE users
        /\ req' = IF saved
                    THEN [req EXCEPT !.login_attempts = save_login_attempt(username)]
                    ELSE req
        /\ server_members' =
              IF result = "Ok" /\ join_server(DEFAULT_SERVER_NAME, user.username) = "Ok"
                THEN server_members \cup
                       { Member(DEFAULT_SERVER_NAME, user.username, "member",
                                OnlineElsewhere(user.username)) }
                ELSE server_members
        /\ last' = [op |-> "login", username |-> username, valid |-> valid,
                    result |-> result, events |-> << >>]
        /\ hist' = [hist EXCEPT !.attempted[LowerCase(username)] = req.now]
        /\ UNCHANGED << banned_usernames, servers, server_bans, channels, direct_messages,
                        messages, files, connections, conn, bus, uuid >>

\* A second passes
tick ==
    /\ req.now < MaxTime
    /\ req' = [req EXCEPT !.now = @ + 1]
    /\ last' = NoLast
    /\ UNCHANGED << tables, connections, conn, bus, uuid, hist >>

LoginNames == { "bob", "Bob", "ann", "ghost" }

\* bob has never failed a login, ann is one failure from the lock; ann is a
\* member of RChat, bob is not; nobody has tried to log in for the last
\* THROTTLE_SECONDS
InitLogin ==
    /\ users = { Account("bob", 0, 0, {}), Account("ann", LOCK_AFTER - 1, 0, {}) }
    /\ banned_usernames = {}
    /\ servers = { Server(DEFAULT_SERVER_NAME, SYSTEM_USERNAME) }
    /\ server_members = { Member(DEFAULT_SERVER_NAME, "ann", "member", FALSE) }
    /\ server_bans = {}
    /\ channels = { Channel("c1", DEFAULT_SERVER_NAME) }
    /\ direct_messages = {}
    /\ messages = {}
    /\ files = {}
    /\ connections = {}
    /\ conn = [c \in ConnIds |-> IdleConn]
    /\ bus = << >>
    /\ req = [now |-> 0, login_attempts |-> {}]
    /\ uuid = 0
    /\ last = NoLast
    /\ hist = [attempted |-> [u \in { LowerCase(n) : n \in LoginNames } |-> 0 - THROTTLE_SECONDS]]

NextLogin ==
    \/ \E u \in LoginNames, valid \in BOOLEAN : login(u, valid)
    \/ tick

SpecLogin == InitLogin /\ [][NextLogin]_vars

LoginStep == last'.op = "login"

\* C38: a login request for an identity made less than 3 seconds after the
\* previous request for that identity, in any spelling and whatever the answer
\* to that request, is answered RateLimitExceeded; a request answered
\* RateLimitExceeded leaves the users rows (failed-attempt counter, lock
\* state) as they were.
C38_LoginThrottledPerIdentity ==
    [][ LoginStep =>
          /\ ( /\ NamedBy(users, "username", last'.username) # {}
               /\ req.now - hist.attempted[LowerCase(last'.username)] < THROTTLE_SECONDS )
               => last'.result = "RateLimitExceeded"
          /\ last'.result = "RateLimitExceeded" => users' = users ]_vars

(***************************************************************************)
(* A join while community bans run.  join_server reads the server, the ban *)
(* list and the membership and then inserts the membership row: separate   *)
(* statements on the pool (server.rs:74-116), the steps of req.usr.  The   *)
(* community ban runs between them.                                        *)
(***************************************************************************)
NextJoin ==
    \/ \E u \in {"bob", "eve"}, s \in {"dev", "ops"} :
          usr_begin(u, [op |-> "join", arg |-> s])
    \/ usr_check
    \/ \E enforced \in BOOLEAN : usr_insert(enforced)
    \/ usr_answer
    \/ \E r \in {"ann", "root"}, s \in {"dev", "ops"}, u \in {"bob", "eve"} :
          remove_server_member(r, s, u)

SpecJoin == InitCom /\ [][NextJoin]_vars

\* C39: in every reachable state no username is at once on the ban list of a
\* community and a member of that community.
C39_BannedIsNotMember ==
    \A b \in server_bans :
        ~ \E m \in server_members :
              m.server_name = b.server_name /\ m.username = b.username

(***************************************************************************)
(* Ownership transfer, statement by statement.  transfer_ownership reads   *)
(* the server and the membership of the new owner and then runs three      *)
(* UPDATE statements on the pool, with no transaction around them          *)
(* (server.rs:362-423); update_member_role reads and then runs one UPDATE  *)
(* (lines 221-275).  req.usr is the position of the transfer in flight,    *)
(* req.ban the position of the role update in flight; community bans run   *)
(* between their statements.                                               *)
(***************************************************************************)

\* transfer_ownership, lines 368-399: the reads and the checks
transfer_read(requester_username, server_name, new_owner) ==
    LET result == transfer_ownership(server_name, new_owner, requester_username)
    IN  /\ req.usr.pc = "idle"
        /\ auth_middleware(requester_username)
        /\ IF result = "Ok"
             THEN /\ req' = [req EXCEPT !.usr = [pc |-> "creator", by |-> requester_username,
                                                  server_name |-> server_name,
                                                  new_owner |-> new_owner]]
                  /\ last' = NoLast
             ELSE /\ req' = req
                  /\ last' = [op |-> "transfer_ownership", by |-> requester_username,
                              server_name |-> server_name, username |-> new_owner,
                              result |-> result, events |-> << >>]
        /\ UNCHANGED << tables, connections, conn, bus, uuid, hist >>

\* UPDATE server_members SET role = ? WHERE server_name = ? AND username = ?
SetRole(server_name, username, role) ==
    { IF m.server_name = server_name /\ m.username = username
        THEN [m EXCEPT !.role = role] ELSE m : m \in server_members }

\* 1. UPDATE servers SET creator_username = ? WHERE name = ?
transfer_creator ==
    /\ req.usr.pc = "creator"
    /\ servers' = { IF s.name = req.usr.server_name
                      THEN [s EXCEPT !.creator_username = req.usr.new_owner] ELSE s :
                    s \in servers }
    /\ req' = [req EXCEPT !.usr.pc = "promote"]
    /\ last' = NoLast
    /\ UNCHANGED << users, banned_usernames, server_members, server_bans, channels,
                    direct_messages, messages, files, connections, conn, bus, uuid, hist >>

\* 2. Promote new owner to admin
transfer_promote ==
    /\ req.usr.pc = "promote"
    /\ server_members' = SetRole(req.usr.server_name, req.usr.new_owner, "admin")
    /\ req' = [req EXCEPT !.usr.pc = "demote"]
    /\ last' = NoLast
    /\ UNCHANGED << users, banned_usernames, servers, server_bans, channels,
                    direct_messages, messages, files, connections, conn, bus, uuid, hist >>

\* 3. Demote old owner to member; then the endpoint broadcasts both role updates
transfer_demote ==
    LET events == << ServerMemberRoleUpdated(req.usr.server_name, req.usr.new_owner, "admin"),
                     ServerMemberRoleUpdated(req.usr.server_name, req.usr.by, "member") >>
    IN  /\ req.usr.pc = "demote"
        /\ server_members' = SetRole(req.usr.server_name, req.usr.by, "member")
        /\ bus' = Send(events)
        /\ last' = [op |-> "transfer_ownership", by |-> req.usr.by,
                    server_name |-> req.usr.server_name, username |-> req.usr.new_owner,
                    result |-> "Ok", events |-> events]
        /\ req' = [req EXCEPT !.usr = [pc |-> "idle"]]
        /\ UNCHANGED << users, banned_usernames, servers, server_bans, channels,
                        direct_messages, messages, files, connections, conn, uuid, hist >>

\* update_member_role, lines 228-266: the reads and the checks
update_member_read(requester_username, server_name, username, new_role) ==
    LET result == update_member_role(server_name, username, new_role, requester_username)
    IN  /\ req.ban.pc = "idle"
        /\ auth_middleware(requester_username)
        /\ IF result = "Ok"
             THEN /\ req' = [req EXCEPT !.ban = [pc |-> "update", by |-> requester_username,
                                                  server_name |-> server_name,
                                                  username |-> username,
                                                  new_role |-> new_role]]
                  /\ last' = NoLast
             ELSE /\ req' = req
                  /\ last' = [op |-> "update_member", by |-> requester_username,
                              server_name |-> server_name, username |-> username,
                              new_role |-> new_role, result |-> result, events |-> << >>]
        /\ UNCHANGED << tables, connections, conn, bus, uuid, hist >>

\* update_member_role, lines 268-273: the UPDATE; then the endpoint broadcasts
update_member_write ==
    LET r      == req.ban
        events == << ServerMemberRoleUpdated(r.server_name, r.username, r.new_role) >>
    IN  /\ r.pc = "update"
        /\ server_members' = SetRole(r.server_name, r.username, r.new_role)
        /\ bus' = Send(events)
        /\ last' = [op |-> "update_member", by |-> r.by, server_name |-> r.server_name,
                    username |-> r.username, new_role |-> r.new_role,
                    result |-> "Ok", events |-> events]
        /\ req' = [req EXCEPT !.ban = [pc |-> "idle"]]
        /\ UNCHANGED << users, banned_usernames, servers, server_bans, channels,
                        direct_messages, messages, files, connections, conn, uuid, hist >>

NextTransfer ==
    \/ \E r \in {"ann", "bob"}, u \in {"ann", "bob", "eve"} : transfer_read(r, "dev", u)
    \/ transfer_creator
    \/ transfer_promote
    \/ transfer_demote
    \/ \E r \in {"ann", "bob"}, u \in {"ann", "bob"}, role \in {"member", "admin"} :
          update_member_read(r, "dev", u, role)
    \/ update_member_write
    \/ \E r \in {"ann", "bob"}, u \in {"ann", "bob"} : remove_server_member(r, "dev", u)
    \/ \E u \in {"bob", "eve"} : join(u, "dev")
    \/ \E r \in {"bob", "eve"} : create(r, "new")

SpecTransfer == InitCom /\ [][NextTransfer]_vars

\* C40: whenever no ownership transfer is in progress, the creator recorded
\* for each community created through create_server has a membership row in
\* that community with role admin.
C40_CreatorIsAdminMember ==
    req.usr.pc = "idle"
      => \A s \in servers :
            s.name # DEFAULT_SERVER_NAME => RoleIn(s.name, s.creator_username) = "admin"

=============================================================================
